---------------------------- MODULE Spec2Model ----------------------------
(***************************************************************************)
(* Verification model of the AI brand tracker.                             *)
(*                                                                         *)
(*  Part I  : BaseBrowserClient.query (src/src/browser_clients/base.py):   *)
(*            retry wrapper, message-count gate, text-stability wait,      *)
(*            final read and result construction.                          *)
(*  Part II : MentionExtractor.extract_batch / _parse_batch_response       *)
(*            (src/src/analyzer/mention_extractor.py) and                  *)
(*            analyze_platform_batch (src/src/main.py).                    *)
(*  Part III: main (src/src/main.py) from the query phase to its end,     *)
(*            BasePlatformClient.query_with_retry, ErrorTracker and the    *)
(*            formatters (src/src/output/formatters.py).                   *)
(*  Part IV : BaseBrowserClient.initialize and close.                      *)
(*  Part V  : MetricsCalculator                                            *)
(*            (src/src/analyzer/metrics_calculator.py) on bounded inputs.  *)
(*  Part VI : BasePlatformClient.query_with_retry                          *)
(*            (src/src/platforms/base.py) called with each max_retries.    *)
(*                                                                         *)
(* The page (message count, response text, page errors), the platform API  *)
(* and the completion service are the environment: every probe returns any *)
(* value of a small set or raises.                                         *)
(***************************************************************************)
EXTENDS Integers, Sequences, FiniteSets, Bags, TLC

(***************************************************************************)
(* Optional values: None is <<>>, Some(x) is <<x>>.                        *)
(***************************************************************************)
None == <<>>
Some(x) == <<x>>

Last(s) == s[Len(s)]

(***************************************************************************)
(* PART I -- BaseBrowserClient.query                                       *)
(***************************************************************************)

\* Largest message count the page reports.
MaxCount == 2

\* Counts _get_message_count can return.
Counts == 0..MaxCount

\* Texts _get_response_text can return: empty (render lag), a text of
\* exactly 10 characters, and two different longer texts.
Texts == {"", "incomplete", "partial and more", "partial and more text"}

\* The read sequence of the false-plateau scenario.
Scenario == <<"", "", "incomplete", "incomplete", "partial and more",
              "partial and more", "partial and more">>

\* Program constants of base.py.
max_retries == 1
new_message_timeout == 60
new_message_interval == 1
response_timeout == 90
response_interval == 2
required_stable == 4
min_stable_len == 10

\* int(timeout_seconds / check_interval) of the two waits.
max_checks == new_message_timeout \div new_message_interval
max_polls == response_timeout \div response_interval

\* Exceptions the page operations can raise.  BrowserClientError carries a
\* recoverable flag; the others are playwright/generic errors.
TextboxNotFound ==
    [type |-> "BrowserClientError", recoverable |-> TRUE,
     message |-> "Could not find textbox"]

PageErrors ==
    { [type |-> "TimeoutError", recoverable |-> TRUE,
       message |-> "Timeout 30000ms exceeded"],
      [type |-> "BrowserClientError", recoverable |-> FALSE,
       message |-> "Page crashed"],
      [type |-> "Error", recoverable |-> TRUE,
       message |-> "invalid token in request"] }

\* The exception classes above, all derived from Exception.
ExceptionTypes == {"BrowserClientError", "TimeoutError", "Error"}

\* Messages that contain one of the sensitive patterns of
\* sanitize_error_message ("api_key", "sk-ant", "anthropic", "token",
\* "secret", "password").
SensitiveMessages == {"invalid token in request"}

\* sanitize_error_message: messages here are shorter than max_length.
sanitize_error_message(e) ==
    IF e.message \in SensitiveMessages
    THEN "Internal error occurred"
    ELSE e.message

NoNewMessageError == "No new response received (count did not increase)"
EmptyResponseError == "Empty response received"

\* BrowserQueryResult (platform and prompt are fixed per call and omitted).
BrowserQueryResult(response, success, error) ==
    [response |-> response, success |-> success, error |-> error]

VARIABLES
    pc,             \* position of query / _query_impl
    attempt,        \* loop variable of _execute_with_retry
    message_count,  \* self._message_count
    old_count,      \* baseline captured before submission
    checks,         \* polls done by _wait_for_new_message
    polls,          \* polls done by _wait_for_response_complete
    last_content,   \* last_content of _wait_for_response_complete
    stable_count,   \* stable_count of _wait_for_response_complete
    complete,       \* return value of _wait_for_response_complete
    result,         \* value returned by query (None until it returns)
    exc,            \* exception propagating out of _execute_with_retry
    \* history variables (per attempt unless noted)
    reads,          \* the last required_stable+1 texts read by the wait
    scen,           \* how far the reads follow Scenario (-1: they do not)
    baseline,       \* old_count has been captured
    entered,        \* Enter has been pressed
    gate,           \* a count poll returned more than old_count
    textRead,       \* a response-text read has been started
    timedOut,       \* "no", "await" or "stream"
    finalRead,      \* the final read has been issued
    finalText,      \* Some(text) once the final read returned
    cycles          \* outcomes of the finished cycles (whole call)

qvars == <<pc, attempt, message_count, old_count, checks, polls, last_content,
           stable_count, complete, result, exc, reads, scen, baseline,
           entered, gate, textRead, timedOut, finalRead, finalText, cycles>>


\* State of a call of MentionExtractor.extract_batch (Part II).
VARIABLES
    epc,            \* "call", "returned", "analyzed" or "aggregated"
    responses,      \* prompt ids of the answers passed to extract_batch
    brands,         \* the brands passed to extract_batch
    service,        \* what the completion service produces for this call
    extraction,     \* the list extract_batch returned
    llm_calls,      \* number of calls of the completion service
    prompt_results  \* the list analyze_platform_batch returned

evars == <<epc, responses, brands, service, extraction, llm_calls,
           prompt_results>>

\* The ErrorTracker of the run (src/src/error_handling/tracker.py): the
\* records appended to tracker.errors and tracker.successes.  The order of
\* the records in a list is the order in which the concurrent tasks
\* finished; each list is kept as the bag of its records, which fixes how
\* many records of each kind it holds and leaves their order open.
VARIABLES
    errors,
    successes

tvars == <<errors, successes>>

\* State of the query and analysis phases of main (Part III).
VARIABLES
    phase,              \* "off", "query", "analyze", "analyzed", "metrics",
                        \* "finished", or "raised" when an exception left
                        \* main
    ppc,                \* position of each query_platform task
    batch_start,        \* batch_start of each query_platform task
    tasks,              \* the query_single_prompt tasks of each platform
    platform_responses, \* platform_responses of each query_platform task
    all_responses,      \* all_responses of main
    platform_analysis,  \* per platform: None, or the service outcome and
                        \* the list analyze_platform_batch returned
    run_prompt_results, \* prompt_results of main
    overtaken,          \* a query returned before one submitted earlier
    ceiling_hit         \* the wall clock has passed the ceiling of the phase

rvars == <<phase, ppc, batch_start, tasks, platform_responses, all_responses,
           platform_analysis, run_prompt_results, overtaken,
           ceiling_hit>>

\* What main has produced (Part III).
VARIABLES
    dataset,    \* the records passed to Actor.push_data, in order
    main_exc    \* None, or the exception that left main

ovars == <<dataset, main_exc>>

\* State of one browser session of BaseBrowserClient (Part IV).
VARIABLES
    spc,            \* position: "off", "new", "init", "init_sleep", "ready",
                    \* "init_failed", "closing", "closed", "close_raised"
    init_attempt,   \* attempt of _execute_with_retry in initialize
    istep,          \* the next awaited call of _init_impl
    cstep,          \* the next release of close
    self_refs,      \* the attributes page, context, browser, playwright:
                    \* None, or the attempt that acquired the resource
    live,           \* the resources acquired and not released
    released        \* the attributes close has called a release on

svars == <<spc, init_attempt, istep, cstep, self_refs, live, released>>

\* MetricsCalculator applied to bounded inputs (Part V).
VARIABLES
    wpc,                    \* "off", "mentions", "winner", "loser", "record"
    w_mentions,             \* the mention list of one answer
    w_winner,               \* what determine_winner returned
    w_loser,                \* what determine_loser returned
    w_record,               \* what format_prompt_result returned
    mpc,                    \* "off", "results", "metrics", "leaderboards", "again"
    m_results,              \* prompt_results at step 5 of main
    m_brand_metrics,        \* brand_metrics_list
    m_rankings,             \* rankings
    m_platform_leaderboards, \* platform_leaderboards
    m_again                 \* what a second aggregation of m_results returned

mvars == <<wpc, w_mentions, w_winner, w_loser, w_record, mpc, m_results,
           m_brand_metrics, m_rankings, m_platform_leaderboards, m_again>>

\* BasePlatformClient.query_with_retry called on its own (Part VI).
VARIABLES
    rtask,      \* the call, a task record of Part III; st "off" when not called
    rmax,       \* the argument max_retries
    rlog,       \* the outcomes of the calls of query so far
    rwaits      \* the seconds of the backoff sleeps so far

bvars == <<rtask, rmax, rlog, rwaits>>

outsideQuery == <<evars, tvars, rvars, ovars, svars, mvars, bvars>>
outsideExtract == <<qvars, rvars, ovars, svars, mvars, bvars>>
outsideMain == <<qvars, evars, svars, mvars, bvars>>
outsideRun == <<outsideMain, ovars>>
outsideSession == <<qvars, evars, tvars, rvars, ovars, mvars, bvars>>
outsideMetrics == <<qvars, evars, tvars, rvars, ovars, svars, bvars>>
outsideRetry == <<qvars, evars, tvars, rvars, ovars, svars, mvars>>
vars == <<qvars, evars, tvars, rvars, ovars, svars, mvars, bvars>>

QueryInit ==
    /\ pc = "idle"
    /\ attempt = 0
    /\ message_count = 0
    /\ old_count = 0
    /\ checks = 0
    /\ polls = 0
    /\ last_content = ""
    /\ stable_count = 0
    /\ complete = FALSE
    /\ result = None
    /\ exc = None
    /\ reads = <<>>
    /\ scen = 0
    /\ baseline = FALSE
    /\ entered = FALSE
    /\ gate = FALSE
    /\ textRead = FALSE
    /\ timedOut = "no"
    /\ finalRead = FALSE
    /\ finalText = None
    /\ cycles = <<>>

(***************************************************************************)
(* _execute_with_retry (base.py 74-83): an exception of the operation is   *)
(* re-raised on the last attempt and followed by sleep(2) and another      *)
(* attempt otherwise; a value returned by the operation is returned as is. *)
(***************************************************************************)
OperationRaises(e) ==
    /\ cycles' = Append(cycles, "exception")
    /\ result' = result
    /\ IF attempt = max_retries
       THEN pc' = "raised" /\ exc' = Some(e)
       ELSE pc' = "sleep" /\ exc' = None

OperationReturns(r) ==
    /\ cycles' = Append(cycles, IF r.success THEN "success" ELSE "failed")
    /\ result' = Some(r)
    /\ pc' = "done"
    /\ exc' = None

\* try: return await self._execute_with_retry(_query_impl, ..., max_retries=1)
StartQuery ==
    /\ pc = "idle"
    /\ pc' = "impl"
    /\ UNCHANGED <<attempt, message_count, old_count, checks, polls,
                   last_content, stable_count, complete, result, exc, reads,
                   scen, baseline, entered, gate, textRead, timedOut,
                   finalRead, finalText, cycles>>
    /\ UNCHANGED outsideQuery

\* _query_impl, lines 204-213: count the message, wait for the textbox.
FindTextbox ==
    /\ pc = "impl"
    /\ message_count' = message_count + 1
    /\ checks' = 0
    /\ polls' = 0
    /\ last_content' = ""
    /\ stable_count' = 0
    /\ complete' = FALSE
    /\ reads' = <<>>
    /\ scen' = 0
    /\ baseline' = FALSE
    /\ entered' = FALSE
    /\ gate' = FALSE
    /\ textRead' = FALSE
    /\ timedOut' = "no"
    /\ finalRead' = FALSE
    /\ finalText' = None
    /\ \/ \E e \in PageErrors : OperationRaises(e)       \* wait_for_selector
       \/ OperationRaises(TextboxNotFound)               \* textbox is None
       \/ pc' = "capture" /\ UNCHANGED <<result, exc, cycles>>
    /\ UNCHANGED <<attempt, old_count>>
    /\ UNCHANGED outsideQuery

\* line 216: old_count = await self._get_message_count()
CaptureOldCount ==
    /\ pc = "capture"
    /\ \/ \E c \in Counts :
            /\ old_count' = c
            /\ baseline' = TRUE
            /\ pc' = "submit"
            /\ UNCHANGED <<result, exc, cycles>>
       \/ \E e \in PageErrors :
            /\ OperationRaises(e)
            /\ UNCHANGED <<old_count, baseline>>
    /\ UNCHANGED <<attempt, message_count, checks, polls, last_content,
                   stable_count, complete, reads, scen, entered, gate,
                   textRead, timedOut, finalRead, finalText>>
    /\ UNCHANGED outsideQuery

\* lines 218-224: click, type the prompt, press Enter.
Submit ==
    /\ pc = "submit"
    /\ \/ /\ entered' = TRUE
          /\ pc' = "await"
          /\ UNCHANGED <<result, exc, cycles>>
       \/ \E e \in PageErrors, pressed \in BOOLEAN :
            /\ OperationRaises(e)
            /\ entered' = pressed
    /\ UNCHANGED <<attempt, message_count, old_count, checks, polls,
                   last_content, stable_count, complete, reads, scen,
                   baseline, gate, textRead, timedOut, finalRead, finalText>>
    /\ UNCHANGED outsideQuery

\* A variant of PollCount in which a raising probe restarts the wait.
PollCountRestartsOnError ==
    /\ pc = "await"
    /\ checks < max_checks
    /\ \/ \E c \in Counts :
            IF c > old_count
            THEN gate' = TRUE /\ pc' = "stream" /\ checks' = 0
            ELSE checks' = checks + 1 /\ UNCHANGED <<gate, pc>>
       \/ checks' = 0 /\ UNCHANGED <<gate, pc>>
    /\ UNCHANGED <<attempt, message_count, old_count, polls, last_content,
                   stable_count, complete, result, exc, reads, scen, baseline,
                   entered, textRead, timedOut, finalRead, finalText, cycles>>
    /\ UNCHANGED outsideQuery

\* A variant of CountIncreased that accepts an unchanged count.
CountNotDecreased(current_count, count_before) == current_count >= count_before

\* Line 168: if current_count > old_count.
CountIncreased(current_count, count_before) == current_count > count_before

\* _wait_for_new_message (159-172): one iteration of the loop.  The probe
\* returns a count or raises; a raise counts as no increase.  The loop
\* counter is local to the wait and is dropped when the wait returns True.
PollCount ==
    /\ pc = "await"
    /\ checks < max_checks
    /\ \/ \E c \in Counts :
            IF CountIncreased(c, old_count)
            THEN gate' = (c > old_count) /\ pc' = "stream" /\ checks' = 0
            ELSE checks' = checks + 1 /\ UNCHANGED <<gate, pc>>
       \/ checks' = checks + 1 /\ UNCHANGED <<gate, pc>>
    /\ UNCHANGED <<attempt, message_count, old_count, polls, last_content,
                   stable_count, complete, result, exc, reads, scen, baseline,
                   entered, textRead, timedOut, finalRead, finalText, cycles>>
    /\ UNCHANGED outsideQuery

\* A variant of NoNewMessageResult that reports the empty-response error.
NoNewMessageResultAsEmpty ==
    BrowserQueryResult("", FALSE, Some(EmptyResponseError))

\* Lines 230-236: the result returned when no new message appeared.
NoNewMessageResult ==
    BrowserQueryResult("", FALSE, Some(NoNewMessageError))

\* _wait_for_new_message returns False; query lines 229-236.
NoNewMessage ==
    /\ pc = "await"
    /\ checks = max_checks
    /\ timedOut' = "await"
    /\ OperationReturns(NoNewMessageResult)
    /\ UNCHANGED <<attempt, message_count, old_count, checks, polls,
                   last_content, stable_count, complete, reads, scen,
                   baseline, entered, gate, textRead, finalRead, finalText>>
    /\ UNCHANGED outsideQuery

\* A variant of StabilityStep that keeps the counter when the text changes.
StabilityStepNoReset(last, count, current) ==
    IF current # "" /\ current = last /\ Len(current) > min_stable_len
    THEN [last_content |-> last, stable_count |-> count + 1,
          done |-> count + 1 >= required_stable]
    ELSE [last_content |-> current, stable_count |-> count, done |-> FALSE]

\* A variant of StabilityStep that counts a text of 10 characters as well.
StabilityStepFromTen(last, count, current) ==
    IF current # "" /\ current = last /\ Len(current) >= min_stable_len
    THEN [last_content |-> last, stable_count |-> count + 1,
          done |-> count + 1 >= required_stable]
    ELSE [last_content |-> current, stable_count |-> 0, done |-> FALSE]

\* Lines 190-196: the comparison of one read with the previous one.
StabilityStep(last, count, current) ==
    IF current # "" /\ current = last /\ Len(current) > min_stable_len
    THEN [last_content |-> last, stable_count |-> count + 1,
          done |-> count + 1 >= required_stable]
    ELSE [last_content |-> current, stable_count |-> 0, done |-> FALSE]

PushRead(w, t) ==
    IF Len(w) < required_stable + 1 THEN Append(w, t) ELSE Append(Tail(w), t)

ScenarioStep(k, t) ==
    IF k >= 0 /\ k < Len(Scenario) /\ Scenario[k + 1] = t THEN k + 1 ELSE -1

\* _wait_for_response_complete (174-198): one iteration of the loop.
PollText ==
    /\ pc = "stream"
    /\ polls < max_polls
    /\ polls' = polls + 1
    /\ textRead' = TRUE
    /\ \/ \E t \in Texts :
            LET s == StabilityStep(last_content, stable_count, t) IN
            /\ last_content' = s.last_content
            /\ stable_count' = s.stable_count
            /\ complete' = s.done
            /\ pc' = IF s.done THEN "final" ELSE "stream"
            /\ reads' = PushRead(reads, t)
            /\ scen' = ScenarioStep(scen, t)
       \/ UNCHANGED <<last_content, stable_count, complete, pc, reads, scen>>
    /\ UNCHANGED <<attempt, message_count, old_count, checks, result, exc,
                   baseline, entered, gate, timedOut, finalRead, finalText, cycles>>
    /\ UNCHANGED outsideQuery

\* A variant of StabilityTimeout that gives up without the final read.
StabilityTimeoutGivesUp ==
    /\ pc = "stream"
    /\ polls = max_polls
    /\ timedOut' = "stream"
    /\ OperationReturns(BrowserQueryResult("", FALSE, Some(EmptyResponseError)))
    /\ UNCHANGED <<attempt, message_count, old_count, checks, polls,
                   last_content, stable_count, complete, reads, scen,
                   baseline, entered, gate, textRead, finalRead, finalText>>
    /\ UNCHANGED outsideQuery

\* _wait_for_response_complete falls out of its loop and returns False.
StabilityTimeout ==
    /\ pc = "stream"
    /\ polls = max_polls
    /\ timedOut' = "stream"
    /\ pc' = "final"
    /\ UNCHANGED <<attempt, message_count, old_count, checks, polls,
                   last_content, stable_count, complete, result, exc, reads,
                   scen, baseline, entered, gate, textRead, finalRead,
                   finalText,
                   cycles>>
    /\ UNCHANGED outsideQuery

\* A variant of FinalResult without the check for an empty text.
FinalResultNoEmptyCheck(response_text) ==
    BrowserQueryResult(response_text, TRUE, None)

\* Lines 243-258: the result built from the final read.
FinalResult(response_text) ==
    IF response_text = ""
    THEN BrowserQueryResult("", FALSE, Some(EmptyResponseError))
    ELSE BrowserQueryResult(response_text, TRUE, None)

\* Lines 241-258: the final read and the result built from it.
FinalRead ==
    /\ pc = "final"
    /\ textRead' = TRUE
    /\ finalRead' = TRUE
    /\ \/ \E t \in Texts :
            /\ finalText' = Some(t)
            /\ OperationReturns(FinalResult(t))
       \/ \E e \in PageErrors :
            /\ OperationRaises(e)
            /\ UNCHANGED finalText
    /\ UNCHANGED <<attempt, message_count, old_count, checks, polls,
                   last_content, stable_count, complete, reads, scen,
                   baseline, entered, gate, timedOut>>
    /\ UNCHANGED outsideQuery

\* _execute_with_retry line 83 and the next iteration of its loop.
RetrySleep ==
    /\ pc = "sleep"
    /\ attempt' = attempt + 1
    /\ pc' = "impl"
    /\ UNCHANGED <<message_count, old_count, checks, polls, last_content,
                   stable_count, complete, result, exc, reads, scen, baseline,
                   entered, gate, textRead, timedOut, finalRead, finalText, cycles>>
    /\ UNCHANGED outsideQuery

\* A variant of the handler that catches BrowserClientError only.
CatchesBrowserClientErrorOnly(e) == e.type = "BrowserClientError"

\* Line 266: except Exception catches every subclass of Exception.
CatchesException(e) == e.type \in ExceptionTypes

\* query lines 266-273: except Exception as e: return a failed result.  An
\* exception the handler does not catch leaves query ("escaped").
QueryExcept ==
    /\ pc = "raised"
    /\ IF CatchesException(exc[1])
       THEN /\ result' = Some(BrowserQueryResult("", FALSE,
                                 Some(sanitize_error_message(exc[1]))))
            /\ pc' = "done"
       ELSE /\ result' = result
            /\ pc' = "escaped"
    /\ UNCHANGED <<attempt, message_count, old_count, checks, polls,
                   last_content, stable_count, complete, exc, reads, scen,
                   baseline, entered, gate, textRead, timedOut, finalRead, finalText,
                   cycles>>
    /\ UNCHANGED outsideQuery

(***************************************************************************)
(* PART II -- MentionExtractor.extract_batch                               *)
(***************************************************************************)

\* Largest number of analyses in a service response, and of entries in the
\* mentions list of one analysis.
MaxAnalyses == 2
MaxItems == 2

\* item.get("context", "")[:200]
context_limit == 200

(***************************************************************************)
(* JSON values are tagged records.  Brand names and contexts are sequences *)
(* of characters so that lower() and slicing are computed; prompt ids and  *)
(* urls are opaque strings.  Missing stands for an absent key of a dict.   *)
(***************************************************************************)
JStr(cs) == [t |-> "str", cs |-> cs]
JText(s) == [t |-> "str", s |-> s]
JInt(n) == [t |-> "int", n |-> n]
JBool(b) == [t |-> "bool", b |-> b]
JList(items) == [t |-> "list", items |-> items]
JNull == [t |-> "null"]
Missing == [t |-> "missing"]

\* dict.get(key, default)
Get(value, default) == IF value = Missing THEN default ELSE value

\* str.lower(), on the letters used in brand names here.
LowerChar(c) ==
    CASE c = "A" -> "a"
      [] c = "C" -> "c"
      [] c = "E" -> "e"
      [] c = "M" -> "m"
      [] c = "X" -> "x"
      [] c = "Y" -> "y"
      [] c = "Z" -> "z"
      [] OTHER -> c

Lower(cs) == [i \in 1..Len(cs) |-> LowerChar(cs[i])]

\* A variant of s[:n] that keeps the whole of s.
PrefixKeepsAll(cs, n) == cs

\* s[:n]
Prefix(cs, n) == SubSeq(cs, 1, IF Len(cs) < n THEN Len(cs) ELSE n)

SeqsUpTo(S, n) == UNION {[1..k -> S] : k \in 0..n}

\* The tracked brands: the user's brand and one competitor.
TrackedBrands == << <<"A", "c">>, <<"Z", "e">> >>

\* The prompt ids of the answers handed to extract_batch.
ResponseLists == { <<"p1">>, <<"p1", "p2">> }

ShortContext == <<"o", "k">>
LongContext == [i \in 1..(context_limit + 1) |-> "x"]

\* One entry of a "mentions" array.
MentionItem(brand, count, rank, context, isRecommended) ==
    [t |-> "dict", brand |-> brand, count |-> count, rank |-> rank,
     context |-> context, isRecommended |-> isRecommended]

ItemAc ==
    MentionItem(JStr(<<"a", "c">>), JInt(2), JInt(1), JStr(ShortContext),
                JBool(TRUE))
ItemZe == MentionItem(JStr(<<"Z", "e">>), Missing, Missing, Missing, Missing)
ItemUnknown ==
    MentionItem(JStr(<<"X", "y">>), JInt(5), JInt(1), JStr(ShortContext),
                Missing)
ItemNullBrand ==
    MentionItem(JNull, JInt(1), JInt(1), JStr(ShortContext), Missing)
ItemNonDict == JStr(<<"A", "c">>)
ItemAcAgain ==
    MentionItem(JStr(<<"A", "C">>), JInt(0), JInt(1), JStr(ShortContext),
                JBool(FALSE))
ItemLongContext ==
    MentionItem(JStr(<<"z", "E">>), JInt(3), JInt(2), JStr(LongContext),
                Missing)
ItemNullContext ==
    MentionItem(JStr(<<"Z", "e">>), JInt(1), JInt(2), JNull, Missing)

Items == {ItemAc, ItemZe, ItemNullBrand}

\* Values of the "mentions" key: a list of entries, or not a list.
MentionValues == {JList(l) : l \in SeqsUpTo(Items, MaxItems)} \cup {JNull}

\* One entry of the "analyses" array.
Analysis(promptId, mentions, citations) ==
    [t |-> "dict", promptId |-> promptId, mentions |-> mentions,
     citations |-> citations]

Url == "https://a.example"

\* Analyses with an unknown, absent or unhashable promptId, with citations,
\* with an untracked brand, an entry that is no dict, a repeated brand and a
\* null context; and an analysis that is no dict.
SpecialAnalyses ==
    { JText("oops"),
      Analysis(Missing, JList(<<ItemZe>>), Missing),
      Analysis(JText("p1"), JList(<<ItemUnknown, ItemAc>>), Missing),
      Analysis(JText("p2"), JList(<<ItemZe, ItemNonDict, ItemAc>>), Missing),
      Analysis(JText("p2"), JList(<<ItemAc, ItemLongContext>>), Missing),
      Analysis(JText("p2"), JList(<<ItemNullBrand, ItemZe>>), Missing),
      Analysis(JText("p2"), JNull, Missing),
      Analysis(JText("px"), JList(<<ItemAc>>), Missing),
      Analysis(JList(<<>>), JList(<<ItemAc>>), Missing),
      Analysis(JText("p1"), JList(<<ItemZe>>),
               JList(<<JText(Url), JText(""), JNull>>)),
      Analysis(JText("p2"), JList(<<ItemAc, ItemAcAgain>>), JText(Url)),
      Analysis(JText("p1"), JList(<<ItemNullContext, ItemZe>>), Missing) }

\* The analyses of a response: every mentions value for the first answer,
\* and the special analyses.
Analyses ==
    { Analysis(JText("p1"), m, Missing) : m \in MentionValues }
    \cup SpecialAnalyses

\* The top-level JSON object of a response.
Response(analyses) == [t |-> "dict", analyses |-> analyses]

\* JSON texts the service can return: an object with an "analyses" value
\* (a list, null, or absent), a list wrapping one object, a value without
\* braces, or text that is no JSON.
Malformed == [t |-> "malformed"]

Bodies ==
    { Response(JList(l)) : l \in SeqsUpTo(Analyses, MaxAnalyses) }
    \cup { Response(JNull), Response(Missing),
           JList(<<>>),
           JList(<<Response(JList(<<Analysis(JText("p1"), JList(<<ItemAc>>),
                                             Missing)>>))>>),
           Malformed }

FencedBodies ==
    { Response(JList(l)) : l \in SeqsUpTo(SpecialAnalyses, 1) }
    \cup { JList(<<>>), Malformed }

\* What lines 120-127 of _extract_batch_with_llm produce: the content
\* returned by the provider call (bare, or wrapped in a code fence), or an
\* exception (service error, or the provider dispatch failing).
ServiceOutcomes ==
    { [t |-> "content", wrap |-> "bare", body |-> b] : b \in Bodies }
    \cup { [t |-> "content", wrap |-> "fenced", body |-> b] :
             b \in FencedBodies }
    \cup { [t |-> "raise", error |-> "ServiceError"],
           [t |-> "raise", error |-> "AttributeError"] }

ExtractionResult(prompt_id, mentions, citations) ==
    [prompt_id |-> prompt_id, mentions |-> mentions, citations |-> citations]

BrandMention(brand, count, rank, context, is_recommended) ==
    [brand |-> brand, count |-> count, rank |-> rank, context |-> context,
     is_recommended |-> is_recommended]

\* Results and exceptions of the parsing operators.
Ok(v) == [raised |-> "none", value |-> v]
Raise(e) == [raised |-> e, value |-> <<>>]

\* Lines 188-192: re.search(r'\{.*\}', content, DOTALL) takes the span from
\* the first "{" to the last "}", then json.loads.
LoadJson(content) ==
    LET b == content.body IN
    CASE b = Malformed -> Raise("JSONDecodeError")
      [] b.t = "dict" -> Ok(b)
      [] b.t = "list" /\ Len(b.items) = 1 -> Ok(b.items[1])
      [] OTHER -> IF content.wrap = "bare"
                  THEN Ok(b)
                  ELSE Raise("JSONDecodeError")

\* Lines 212-215: the first tracked brand equal to brand ignoring case.
MatchBrand(brand, valid_brands) ==
    LET idx == {i \in 1..Len(valid_brands) :
                  Lower(valid_brands[i]) = Lower(brand)}
    IN IF idx = {}
       THEN None
       ELSE Some(valid_brands[CHOOSE i \in idx : \A j \in idx : i <= j])

\* A variant of ParseItem that keeps the brand as the service wrote it.
ParseItemKeepsServiceName(item, valid_brands, mentions) ==
    IF item.t # "dict"
    THEN Ok(mentions)
    ELSE LET brand == Get(item.brand, JStr(<<>>)) IN
         IF brand.t # "str"
         THEN Raise("AttributeError")
         ELSE LET matched == MatchBrand(brand.cs, valid_brands)
                  context == Get(item.context, JStr(<<>>))
              IN IF matched = None \/ matched = Some(<<>>)
                 THEN Ok(mentions)
                 ELSE IF context.t # "str"
                 THEN Raise("TypeError")
                 ELSE Ok(Append(mentions,
                        BrandMention(brand.cs,
                                     Get(item.count, JInt(1)).n,
                                     Get(item.rank, JInt(Len(mentions) + 1)).n,
                                     Prefix(context.cs, context_limit),
                                     Get(item.isRecommended, JBool(FALSE)).b)))

\* Lines 210-223: one entry of the mentions list.
ParseItem(item, valid_brands, mentions) ==
    IF item.t # "dict"
    THEN Ok(mentions)
    ELSE LET brand == Get(item.brand, JStr(<<>>)) IN
         IF brand.t # "str"
         THEN Raise("AttributeError")
         ELSE LET matched == MatchBrand(brand.cs, valid_brands)
                  context == Get(item.context, JStr(<<>>))
              IN IF matched = None \/ matched = Some(<<>>)
                 THEN Ok(mentions)
                 ELSE IF context.t # "str"
                 THEN Raise("TypeError")
                 ELSE Ok(Append(mentions,
                        BrandMention(matched[1],
                                     Get(item.count, JInt(1)).n,
                                     Get(item.rank, JInt(Len(mentions) + 1)).n,
                                     Prefix(context.cs, context_limit),
                                     Get(item.isRecommended, JBool(FALSE)).b)))

\* Lines 206-223: the mentions of one analysis.
RECURSIVE ParseMentions(_, _, _)
ParseMentions(items, valid_brands, mentions) ==
    IF items = <<>>
    THEN Ok(mentions)
    ELSE LET r == ParseItem(Head(items), valid_brands, mentions) IN
         IF r.raised # "none"
         THEN r
         ELSE ParseMentions(Tail(items), valid_brands, r.value)

\* Lines 226-229: the citations of one analysis.
RECURSIVE ParseCitations(_)
ParseCitations(urls) ==
    IF urls = <<>>
    THEN <<>>
    ELSE LET url == Head(urls) IN
         IF url.t = "str" /\ url.s # ""
         THEN <<url.s>> \o ParseCitations(Tail(urls))
         ELSE ParseCitations(Tail(urls))

\* Lines 198-235: the loop over the analyses; processed_ids is the set of
\* promptIds seen.
RECURSIVE ParseAnalyses(_, _, _, _)
ParseAnalyses(analyses, valid_brands, results, processed_ids) ==
    IF analyses = <<>>
    THEN Ok([results |-> results, processed_ids |-> processed_ids])
    ELSE LET analysis == Head(analyses) IN
         IF analysis.t # "dict"
         THEN ParseAnalyses(Tail(analyses), valid_brands, results,
                            processed_ids)
         ELSE LET pid == Get(analysis.promptId, JText(""))
                  mentions_data == Get(analysis.mentions, JList(<<>>))
                  citations_data == Get(analysis.citations, JList(<<>>))
              IN IF pid.t = "list"
                 THEN Raise("TypeError")
                 ELSE LET m == IF mentions_data.t = "list"
                               THEN ParseMentions(mentions_data.items,
                                                  valid_brands, <<>>)
                               ELSE Ok(<<>>)
                          c == IF citations_data.t = "list"
                               THEN ParseCitations(citations_data.items)
                               ELSE <<>>
                      IN IF m.raised # "none"
                         THEN m
                         ELSE ParseAnalyses(
                                 Tail(analyses), valid_brands,
                                 Append(results,
                                        ExtractionResult(pid.s, m.value, c)),
                                 processed_ids \cup {pid.s})

\* Empty results for the responses whose prompt_id is not in processed_ids
\* (lines 238-244), or for all of them (lines 248-253, line 89).
RECURSIVE EmptyResults(_, _)
EmptyResults(original_responses, processed_ids) ==
    IF original_responses = <<>>
    THEN <<>>
    ELSE (IF Head(original_responses) \in processed_ids
          THEN <<>>
          ELSE <<ExtractionResult(Head(original_responses), <<>>, <<>>)>>)
         \o EmptyResults(Tail(original_responses), processed_ids)

\* _parse_batch_response (179-255).
parse_batch_response(content, valid_brands, original_responses) ==
    LET data == LoadJson(content) IN
    IF data.raised = "JSONDecodeError"
    THEN Ok(EmptyResults(original_responses, {}))
    ELSE IF data.value.t # "dict"
    THEN Raise("AttributeError")                      \* data.get
    ELSE LET analyses == Get(data.value.analyses, JList(<<>>)) IN
         IF analyses.t # "list"
         THEN Raise("TypeError")                      \* for analysis in None
         ELSE LET r == ParseAnalyses(analyses.items, valid_brands, <<>>, {})
              IN IF r.raised # "none"
                 THEN r
                 ELSE Ok(r.value.results
                         \o EmptyResults(original_responses,
                                         r.value.processed_ids))

\* extract_batch (70-89).
extract_batch(outcome, original_responses, valid_brands) ==
    IF original_responses = <<>> \/ valid_brands = <<>>
    THEN <<>>
    ELSE IF outcome.t = "raise"
    THEN EmptyResults(original_responses, {})
    ELSE LET r == parse_batch_response(outcome, valid_brands,
                                       original_responses)
         IN IF r.raised # "none"
            THEN EmptyResults(original_responses, {})
            ELSE r.value

\* No extraction is in progress.
ExtractIdle ==
    /\ epc = "off"
    /\ responses = <<>>
    /\ brands = TrackedBrands
    /\ service = [t |-> "raise", error |-> "ServiceError"]
    /\ extraction = <<>>
    /\ llm_calls = 0
    /\ prompt_results = <<>>

\* A call of extract_batch on some answers, with any service outcome.
ExtractInit ==
    /\ epc = "call"
    /\ responses \in ResponseLists
    /\ brands = TrackedBrands
    /\ service \in ServiceOutcomes
    /\ extraction = <<>>
    /\ llm_calls = 0
    /\ prompt_results = <<>>

\* Number of calls of the completion service extract_batch makes
\* (lines 81-89): none for an empty input, otherwise one, without a retry.
service_calls(original_responses, valid_brands) ==
    IF original_responses = <<>> \/ valid_brands = <<>> THEN 0 ELSE 1

(***************************************************************************)
(* analyze_platform_batch (src/src/main.py 282-347) and the two operators  *)
(* of MetricsCalculator it calls.                                          *)
(***************************************************************************)

\* ActorInput.your_brand and ActorInput.competitors, with
\* all_brands = [your_brand] + competitors (config.py 64-67).
your_brand(all_brands) == Head(all_brands)
competitors(all_brands) == Tail(all_brands)

\* Tuples compared as Python compares them.
KeyLess(a, b) == a[1] < b[1] \/ (a[1] = b[1] /\ a[2] < b[2])

\* sorted(s, key=...): the indices of keys in ascending key order, equal
\* keys in their original order (the sort is stable).
RECURSIVE SortedIndices(_, _)
SortedIndices(keys, remaining) ==
    IF remaining = {}
    THEN <<>>
    ELSE LET i == CHOOSE k \in remaining :
                    \A j \in remaining \ {k} :
                        \/ KeyLess(keys[k], keys[j])
                        \/ (~KeyLess(keys[j], keys[k]) /\ k < j)
         IN <<i>> \o SortedIndices(keys, remaining \ {i})

\* MetricsCalculator.determine_winner (metrics_calculator.py 56-86).
determine_winner(mentions) ==
    IF mentions = <<>>
    THEN None
    ELSE LET keys == [i \in 1..Len(mentions) |->
                        <<0 - mentions[i].count, mentions[i].rank>>]
             order == SortedIndices(keys, 1..Len(mentions))
             sorted_mentions == [i \in 1..Len(order) |-> mentions[order[i]]]
             top == sorted_mentions[1]
         IN IF Len(sorted_mentions) > 1
               /\ sorted_mentions[2].count = top.count
            THEN IF sorted_mentions[2].rank < top.rank
                 THEN Some(sorted_mentions[2].brand)
                 ELSE IF sorted_mentions[2].rank = top.rank
                 THEN None
                 ELSE Some(top.brand)
            ELSE Some(top.brand)

\* MetricsCalculator.determine_loser (metrics_calculator.py 88-103).
determine_loser(mentions) ==
    IF Len(mentions) < 2
    THEN None
    ELSE LET keys == [i \in 1..Len(mentions) |->
                        <<mentions[i].count, 0 - mentions[i].rank>>]
             order == SortedIndices(keys, 1..Len(mentions))
         IN Some(mentions[order[1]].brand)

\* A response record built by query_single_prompt (main.py 151-187), with
\* the keys the later stages read.
ResponseRecord(prompt_id, platform, response, success, error) ==
    [prompt_id |-> prompt_id, platform |-> platform, response |-> response,
     success |-> success, error |-> error]

\* PromptResult (config.py 119-134): the response record, then the fields
\* computed from the mentions.
PromptResult(resp, mentions, citations, winner, loser, mine, named, missed) ==
    [prompt_id |-> resp.prompt_id, platform |-> resp.platform,
     raw_response |-> resp.response, mentions |-> mentions,
     citations |-> citations, prompt_winner |-> winner,
     prompt_loser |-> loser,
     your_brand_mentioned |-> (mine # None),
     your_brand_rank |-> IF mine # None THEN Some(mine[1].rank) ELSE None,
     competitors_mentioned |-> named,
     competitors_missed |-> missed]

\* Line 292 and 297: extraction_map = {r.prompt_id: r for r in results},
\* then extraction_map.get(prompt_id).  A later result with the same
\* prompt_id replaces an earlier one.
extraction_map_get(extraction_results, prompt_id) ==
    LET idx == {i \in 1..Len(extraction_results) :
                  extraction_results[i].prompt_id = prompt_id}
    IN IF idx = {}
       THEN None
       ELSE Some(extraction_results[CHOOSE i \in idx : \A j \in idx : j <= i])

\* x in [c.lower() for c in names]
InLowered(cs, names) == \E i \in 1..Len(names) : Lower(names[i]) = Lower(cs)

\* Lines 295-338: the PromptResult of one response.
BuildPromptResult(resp, extraction_results, all_brands) ==
    LET found == extraction_map_get(extraction_results, resp.prompt_id)
        mentions == IF found = None THEN <<>> ELSE found[1].mentions
        citations == IF found = None THEN <<>> ELSE found[1].citations
        mine == {i \in 1..Len(mentions) :
                   Lower(mentions[i].brand) = Lower(your_brand(all_brands))}
        your_brand_mention ==
            IF mine = {}
            THEN None
            ELSE Some(mentions[CHOOSE i \in mine : \A j \in mine : i <= j])
        brand_of(m) == m.brand
        IsCompetitor(m) == InLowered(m.brand, competitors(all_brands))
        IsMissed(c) ==
            ~InLowered(c, [i \in 1..Len(mentions) |-> mentions[i].brand])
        named == SelectSeq(mentions, IsCompetitor)
    IN PromptResult(resp, mentions, citations,
                    determine_winner(mentions), determine_loser(mentions),
                    your_brand_mention,
                    [i \in 1..Len(named) |-> brand_of(named[i])],
                    SelectSeq(competitors(all_brands), IsMissed))

\* Lines 293-341: one PromptResult per response, in the order of responses.
BuildPromptResults(resps, extraction_results, all_brands) ==
    [k \in 1..Len(resps) |->
        BuildPromptResult(resps[k], extraction_results, all_brands)]

\* The responses analyze_platform_batch is called with in an extraction
\* taken alone: one answered record per prompt id.
AnsweredRecords(ids) ==
    [k \in 1..Len(ids) |->
        ResponseRecord(ids[k], "chatgpt", "answer", TRUE, None)]

\* extract_batch as a whole (line 289 of main.py): the service call and the
\* parsing.
ExtractBatch ==
    /\ epc = "call"
    /\ extraction' = extract_batch(service, responses, brands)
    /\ llm_calls' = llm_calls + service_calls(responses, brands)
    /\ epc' = "returned"
    /\ UNCHANGED <<responses, brands, service, prompt_results>>
    /\ UNCHANGED tvars
    /\ UNCHANGED outsideExtract

\* The rest of analyze_platform_batch after extract_batch returned (lines
\* 291-341).  extract_batch catches every exception and the mentions hold a
\* string brand and integer count and rank, so nothing in the try block
\* raises and the handler of lines 343-347 does not add a record.
BuildResults ==
    /\ epc = "returned"
    /\ prompt_results' =
           BuildPromptResults(AnsweredRecords(responses), extraction, brands)
    /\ epc' = "analyzed"
    /\ UNCHANGED <<responses, brands, service, extraction, llm_calls>>
    /\ UNCHANGED tvars
    /\ UNCHANGED outsideExtract

(***************************************************************************)
(* MetricsCalculator (src/src/analyzer/metrics_calculator.py): the scores, *)
(* calculate_brand_metrics and the leaderboards.  A score is a float with  *)
(* one decimal; it is kept as the integer number of tenths (80.0 is 800).  *)
(***************************************************************************)

\* A variant of RoundTenths that cuts the quotient after the first decimal.
RoundTenthsDown(n, d) == (10 * n) \div d

\* round(n / d, 1) in tenths, for n >= 0 and d > 0: the nearest tenth of the
\* exact quotient, a quotient half way between two tenths going to the even
\* one.
RoundTenths(n, d) ==
    LET q == (10 * n) \div d
        r == (10 * n) % d
    IN IF 2 * r > d THEN q + 1
       ELSE IF 2 * r < d THEN q
       ELSE IF q % 2 = 0 THEN q ELSE q + 1

\* A variant of calculate_visibility_score without the test of line 38: the
\* division by zero is kept as the value -1.
calculate_visibility_score_unguarded(prompts_with_mention, total_prompts) ==
    IF total_prompts = 0
    THEN 0 - 1
    ELSE RoundTenths(100 * prompts_with_mention, total_prompts)

\* MetricsCalculator.calculate_visibility_score (lines 28-40).
calculate_visibility_score(prompts_with_mention, total_prompts) ==
    IF total_prompts = 0
    THEN 0
    ELSE RoundTenths(100 * prompts_with_mention, total_prompts)

\* A variant of calculate_citation_share without the test of line 52: the
\* division by zero is kept as the value -1.
calculate_citation_share_unguarded(brand_mentions, total_mentions) ==
    IF total_mentions = 0
    THEN 0 - 1
    ELSE RoundTenths(100 * brand_mentions, total_mentions)

\* MetricsCalculator.calculate_citation_share (lines 42-54).
calculate_citation_share(brand_mentions, total_mentions) ==
    IF total_mentions = 0
    THEN 0
    ELSE RoundTenths(100 * brand_mentions, total_mentions)

RECURSIVE SumOf(_)
SumOf(s) == IF s = <<>> THEN 0 ELSE Head(s) + SumOf(Tail(s))

\* sum(m.count for m in mentions)
SumCounts(mentions) == SumOf([i \in 1..Len(mentions) |-> mentions[i].count])

\* Lines 151-154: next((m for m in mentions if m.brand.lower() ==
\* brand.lower()), None), the first mention of the brand.
brand_mention_of(mentions, brand) ==
    LET idx == {i \in 1..Len(mentions) :
                  Lower(mentions[i].brand) = Lower(brand)}
    IN IF idx = {}
       THEN None
       ELSE Some(mentions[CHOOSE i \in idx : \A j \in idx : i <= j])

\* The count the loop of lines 134-179 adds for the brand in one result.
BrandCount(r, brand) ==
    LET bm == brand_mention_of(r.mentions, brand)
    IN IF bm = None THEN 0 ELSE bm[1].count

\* A variant of Standing that counts a mentioned brand as tied when the
\* prompt has no winner.
StandingWithoutWinner(r, brand) ==
    LET bm == brand_mention_of(r.mentions, brand) IN
    IF r.prompt_winner = None \/ r.prompt_winner = Some(<<>>)
    THEN IF bm = None THEN "none" ELSE "tied"
    ELSE IF Lower(r.prompt_winner[1]) = Lower(brand)
    THEN "won"
    ELSE IF bm = None
    THEN "none"
    ELSE IF /\ r.prompt_loser # None
            /\ r.prompt_loser # Some(<<>>)
            /\ Lower(r.prompt_loser[1]) = Lower(brand)
    THEN "lost"
    ELSE "tied"

\* Lines 169-179: "won", "lost", "tied" or "none" for one result.
Standing(r, brand) ==
    LET bm == brand_mention_of(r.mentions, brand) IN
    IF r.prompt_winner = None \/ r.prompt_winner = Some(<<>>)
    THEN "none"
    ELSE IF Lower(r.prompt_winner[1]) = Lower(brand)
    THEN "won"
    ELSE IF bm = None
    THEN "none"
    ELSE IF /\ r.prompt_loser # None
            /\ r.prompt_loser # Some(<<>>)
            /\ Lower(r.prompt_loser[1]) = Lower(brand)
    THEN "lost"
    ELSE "tied"

\* Lines 164-165: the non-empty contexts of the brand, in result order.
RECURSIVE ContextsOf(_, _)
ContextsOf(results, brand) ==
    IF results = <<>>
    THEN <<>>
    ELSE LET bm == brand_mention_of(Head(results).mentions, brand)
             rest == ContextsOf(Tail(results), brand)
         IN IF bm # None /\ bm[1].context # <<>>
            THEN <<bm[1].context>> \o rest
            ELSE rest

dedup_prefix == 50
max_top_contexts == 5

\* A variant of TopContexts that compares the prefixes as they are written.
RECURSIVE TopContextsCaseSensitive(_, _, _)
TopContextsCaseSensitive(contexts, seen_contexts, top_contexts) ==
    IF contexts = <<>> \/ Len(top_contexts) >= max_top_contexts
    THEN top_contexts
    ELSE LET ctx_prefix == Prefix(Head(contexts), dedup_prefix)
         IN IF ctx_prefix \in seen_contexts
            THEN TopContextsCaseSensitive(Tail(contexts), seen_contexts,
                                          top_contexts)
            ELSE TopContextsCaseSensitive(Tail(contexts),
                                          seen_contexts \cup {ctx_prefix},
                                          Append(top_contexts,
                                                 Head(contexts)))

\* Lines 212-220: the first max_top_contexts contexts with a new lowered
\* prefix.
RECURSIVE TopContexts(_, _, _)
TopContexts(contexts, seen_contexts, top_contexts) ==
    IF contexts = <<>> \/ Len(top_contexts) >= max_top_contexts
    THEN top_contexts
    ELSE LET ctx_lower == Prefix(Lower(Head(contexts)), dedup_prefix)
         IN IF ctx_lower \in seen_contexts
            THEN TopContexts(Tail(contexts), seen_contexts, top_contexts)
            ELSE TopContexts(Tail(contexts), seen_contexts \cup {ctx_lower},
                             Append(top_contexts, Head(contexts)))

\* The results of one platform, in order.
ResultsOfPlatform(results, platform) ==
    LET Here(r) == r.platform = platform
    IN SelectSeq(results, Here)

\* The number of results the brand is mentioned in.
WithMention(results, brand) ==
    Cardinality({k \in 1..Len(results) :
        brand_mention_of(results[k].mentions, brand) # None})

\* The number of results with the given standing of the brand.
StandingCount(results, brand, standing) ==
    Cardinality({k \in 1..Len(results) :
        Standing(results[k], brand) = standing})

\* A variant of PlatformBreakdown that counts the brand's mentions on every
\* platform against the total of one platform.
PlatformBreakdownAllMentions(results, brand) ==
    [platform \in {results[k].platform : k \in 1..Len(results)}
       |-> LET here == ResultsOfPlatform(results, platform)
               mentions ==
                   SumOf([k \in 1..Len(results) |->
                            BrandCount(results[k], brand)])
               platform_total_mentions ==
                   SumOf([k \in 1..Len(here) |-> SumCounts(here[k].mentions)])
           IN [visibilityScore |->
                   calculate_visibility_score(WithMention(here, brand),
                                              Len(here)),
               citationShare |->
                   calculate_citation_share(mentions,
                                            platform_total_mentions),
               mentions |-> mentions,
               promptsWithMention |-> WithMention(here, brand)]]

\* Lines 191-210: platform_breakdown, a dict keyed by the platforms that
\* have a result.
PlatformBreakdown(results, brand) ==
    [platform \in {results[k].platform : k \in 1..Len(results)}
       |-> LET here == ResultsOfPlatform(results, platform)
               mentions ==
                   SumOf([k \in 1..Len(here) |-> BrandCount(here[k], brand)])
               platform_total_mentions ==
                   SumOf([k \in 1..Len(here) |-> SumCounts(here[k].mentions)])
           IN [visibilityScore |->
                   calculate_visibility_score(WithMention(here, brand),
                                              Len(here)),
               citationShare |->
                   calculate_citation_share(mentions,
                                            platform_total_mentions),
               mentions |-> mentions,
               promptsWithMention |-> WithMention(here, brand)]]

\* MetricsCalculator.calculate_brand_metrics (lines 105-222).
calculate_brand_metrics(brand, results, all_brands) ==
    LET n == Len(results)
        total_all_mentions ==
            SumOf([k \in 1..n |-> SumCounts(results[k].mentions)])
        brand_total_mentions ==
            SumOf([k \in 1..n |-> BrandCount(results[k], brand)])
        prompts_with_mention == WithMention(results, brand)
    IN [brand |-> brand,
        visibility_score |->
            calculate_visibility_score(prompts_with_mention, n),
        citation_share |->
            calculate_citation_share(brand_total_mentions,
                                     total_all_mentions),
        total_mentions |-> brand_total_mentions,
        total_prompts_analyzed |-> n,
        prompts_with_mention |-> prompts_with_mention,
        prompts_missed |-> n - prompts_with_mention,
        prompts_won |-> StandingCount(results, brand, "won"),
        prompts_lost |-> StandingCount(results, brand, "lost"),
        prompts_tied |-> StandingCount(results, brand, "tied"),
        platform_breakdown |-> PlatformBreakdown(results, brand),
        top_contexts |->
            TopContexts(ContextsOf(results, brand), {}, <<>>)]

\* main.py 389-397: the metrics of every tracked brand, in the order of
\* all_brands.
BrandMetricsList(results, all_brands) ==
    [b \in 1..Len(all_brands) |->
        calculate_brand_metrics(all_brands[b], results, all_brands)]

\* A variant of build_leaderboard that sorts on total_mentions alone.
build_leaderboard_one_key(brand_metrics) ==
    LET keys == [i \in 1..Len(brand_metrics) |->
                    <<0 - brand_metrics[i].total_mentions, 0>>]
        order == SortedIndices(keys, 1..Len(brand_metrics))
    IN [i \in 1..Len(order) |->
          [rank |-> i,
           brand |-> brand_metrics[order[i]].brand,
           visibilityScore |-> brand_metrics[order[i]].visibility_score,
           citationShare |-> brand_metrics[order[i]].citation_share,
           totalMentions |-> brand_metrics[order[i]].total_mentions,
           promptsWon |-> brand_metrics[order[i]].prompts_won]]

\* MetricsCalculator.build_leaderboard (lines 224-254).
build_leaderboard(brand_metrics) ==
    LET keys == [i \in 1..Len(brand_metrics) |->
                    <<0 - brand_metrics[i].total_mentions,
                      0 - brand_metrics[i].visibility_score>>]
        order == SortedIndices(keys, 1..Len(brand_metrics))
    IN [i \in 1..Len(order) |->
          [rank |-> i,
           brand |-> brand_metrics[order[i]].brand,
           visibilityScore |-> brand_metrics[order[i]].visibility_score,
           citationShare |-> brand_metrics[order[i]].citation_share,
           totalMentions |-> brand_metrics[order[i]].total_mentions,
           promptsWon |-> brand_metrics[order[i]].prompts_won]]

\* Lines 273-292 for one platform: the brands with an entry for the
\* platform, sorted by citation share.
PlatformLeaderboard(brand_metrics, platform) ==
    LET Has(m) == platform \in DOMAIN m.platform_breakdown
        platform_data == SelectSeq(brand_metrics, Has)
        keys == [i \in 1..Len(platform_data) |->
                    <<0 - platform_data[i].platform_breakdown[platform]
                              .citationShare, 0>>]
        order == SortedIndices(keys, 1..Len(platform_data))
    IN [i \in 1..Len(order) |->
          [brand |-> platform_data[order[i]].brand,
           citationShare |->
               platform_data[order[i]].platform_breakdown[platform]
                   .citationShare,
           mentions |->
               platform_data[order[i]].platform_breakdown[platform].mentions,
           rank |-> i]]

\* MetricsCalculator.build_platform_leaderboards (lines 256-294).
build_platform_leaderboards(brand_metrics, platforms) ==
    [platform \in {platforms[k] : k \in 1..Len(platforms)} |->
        PlatformLeaderboard(brand_metrics, platform)]

(***************************************************************************)
(* PART III -- the query and analysis phases of main (src/src/main.py      *)
(* 139-379), BasePlatformClient.query_with_retry (src/src/platforms/       *)
(* base.py 71-111) and ErrorTracker (src/src/error_handling/tracker.py).   *)
(*                                                                         *)
(* The coroutines run on one event loop: a step of a task runs from one    *)
(* await to the next without interleaving.  The platform API is the        *)
(* environment: a pending query returns any outcome of QueryOutcomes.      *)
(***************************************************************************)

\* Number of prompts of the run, len(all_prompts).
MaxPrompts == 6

\* main.py 140.
BATCH_SIZE == 5

\* main.py 145: query_with_retry(prompt_text, max_retries=2).
query_max_retries == 2

\* The keys of platform_clients in insertion order (main.py 130-137).
PlatformOrder == <<"chatgpt", "gemini">>
Platforms == {PlatformOrder[k] : k \in 1..Len(PlatformOrder)}

\* The indices of all_prompts.
PromptIdx == 0..(MaxPrompts - 1)

\* The prompts whose query can end otherwise than with a non-empty answer,
\* on every platform and at every attempt: one inside the first batch and
\* the last prompt of the run.
FaultyPrompts == {1, MaxPrompts - 1}

\* main.py 203: f"{platform.value}_prompt_{prompt_idx:03d}".
PromptIdTable ==
    [chatgpt |-> <<"chatgpt_prompt_000", "chatgpt_prompt_001",
                   "chatgpt_prompt_002", "chatgpt_prompt_003",
                   "chatgpt_prompt_004", "chatgpt_prompt_005",
                   "chatgpt_prompt_006", "chatgpt_prompt_007">>,
     gemini |-> <<"gemini_prompt_000", "gemini_prompt_001",
                  "gemini_prompt_002", "gemini_prompt_003",
                  "gemini_prompt_004", "gemini_prompt_005",
                  "gemini_prompt_006", "gemini_prompt_007">>]

prompt_id(platform, prompt_idx) == PromptIdTable[platform][prompt_idx + 1]

\* QueryResult (platforms/base.py 18-26) and PlatformError (8-15).
QueryResult(response, success, error) ==
    [response |-> response, success |-> success, error |-> error]

PlatformError(message, recoverable) ==
    [message |-> message, recoverable |-> recoverable]

QueryReturned(r) == [kind |-> "return", result |-> r]
QueryRaised(e) == [kind |-> "raise", error |-> e]

\* What client.query does (platforms/openai_client.py 25-77): an answer,
\* an answer with empty content, a failed result, or a PlatformError that
\* is recoverable (rate limit) or not (invalid key).
PlainAnswer == QueryReturned(QueryResult("answer", TRUE, None))

QueryOutcomes ==
    { PlainAnswer,
      QueryReturned(QueryResult("", TRUE, None)),
      QueryReturned(QueryResult("", FALSE, Some("HTTP 500"))),
      QueryRaised(PlatformError("Rate limit exceeded", TRUE)),
      QueryRaised(PlatformError("Invalid API key", FALSE)) }

\* ErrorRecord and SuccessRecord (tracker.py 8-23), without the timestamp.
ErrorRecord(error_type, message, context) ==
    [error_type |-> error_type, message |-> message, context |-> context,
     recoverable |-> TRUE]

SuccessRecord(operation) == [operation |-> operation]

\* ErrorTracker.add_error (tracker.py 34-47).
add_error(log, record) == log (+) SetToBag({record})

\* A variant of add_success that keeps only the newest record.
add_success_overwrites(log, record) == SetToBag({record})

\* ErrorTracker.add_success (tracker.py 49-54).
add_success(log, record) == log (+) SetToBag({record})

\* f"{platform.value}:{prompt_id}" (main.py 148, 163, 178).
Context(platform, pid) == <<platform, pid>>

\* A query_single_prompt task: not yet created, awaiting client.query,
\* awaiting the backoff sleep, or returned with its response record.
NewTask ==
    [st |-> "new", attempt |-> 0, last_error |-> None, result |-> None]
Querying(n, last_error) ==
    [st |-> "query", attempt |-> n, last_error |-> last_error,
     result |-> None]
Sleeping(n, last_error) ==
    [st |-> "sleep", attempt |-> n, last_error |-> last_error,
     result |-> None]
Returned(record) ==
    [st |-> "done", attempt |-> 0, last_error |-> None,
     result |-> Some(record)]

\* A variant of query_with_retry_from that makes one attempt more.
query_with_retry_one_more(t, o, retries) ==
    IF o.kind = "return" /\ o.result.success
    THEN Some(o.result)
    ELSE LET last_error == IF o.kind = "return"
                           THEN o.result.error
                           ELSE Some(o.error.message)
             broke == o.kind = "raise" /\ ~o.error.recoverable
         IN IF ~broke /\ t.attempt < retries
            THEN None
            ELSE Some(QueryResult("", FALSE,
                        IF last_error \in {None, Some("")}
                        THEN Some("Unknown error after retries")
                        ELSE last_error))

\* query_with_retry (base.py 84-111) called with max_retries = retries,
\* from the point where the awaited query of attempt t.attempt ended with
\* outcome o: the QueryResult it returns, or None when it goes on to the
\* backoff sleep.  An error without text counts as no error in
\* last_error or "Unknown error after retries" (line 110).
query_with_retry_from(t, o, retries) ==
    IF o.kind = "return" /\ o.result.success
    THEN Some(o.result)
    ELSE LET last_error == IF o.kind = "return"
                           THEN o.result.error
                           ELSE Some(o.error.message)
             broke == o.kind = "raise" /\ ~o.error.recoverable
         IN IF ~broke /\ t.attempt < retries - 1
            THEN None
            ELSE Some(QueryResult("", FALSE,
                        IF last_error \in {None, Some("")}
                        THEN Some("Unknown error after retries")
                        ELSE last_error))

\* The call of main: client.query_with_retry(prompt_text, max_retries=2)
\* (main.py 145).
query_with_retry(t, o) == query_with_retry_from(t, o, query_max_retries)

\* The error the loop of query_with_retry keeps after outcome o.
LastError(o) ==
    IF o.kind = "return" THEN o.result.error ELSE Some(o.error.message)

\* query_single_prompt (main.py 142-188) after query_with_retry returned
\* qr: the response record.  query_with_retry catches every exception, so
\* the handler of lines 174-188 is not reached.
query_single_prompt(platform, pid, qr) ==
    IF qr.success
    THEN ResponseRecord(pid, platform, qr.response, TRUE, None)
    ELSE ResponseRecord(pid, platform, "", FALSE, qr.error)

\* The indices of the batch starting at b (main.py 196-198).
BatchOf(b) ==
    {i \in PromptIdx : b <= i /\ i < b + BATCH_SIZE}

\* Lines 200-207: the tasks of the batch are created in order and gathered;
\* each runs up to its first await, the query of attempt 0.
StartBatch(ts, b) ==
    [i \in PromptIdx |-> IF i \in BatchOf(b) THEN Querying(0, None) ELSE ts[i]]

\* A variant of BatchResults with the results in the opposite order.
BatchResultsReversed(ts, b) ==
    [k \in 1..Cardinality(BatchOf(b)) |->
        ts[b + Cardinality(BatchOf(b)) - k].result[1]]

\* Lines 207-213: gather returns the results in the order of the tasks.
BatchResults(ts, b) ==
    [k \in 1..Cardinality(BatchOf(b)) |-> ts[b + k - 1].result[1]]

\* Nothing of the run has started.
RunIdle ==
    /\ phase = "off"
    /\ ppc = [p \in Platforms |-> "new"]
    /\ batch_start = [p \in Platforms |-> 0]
    /\ tasks = [p \in Platforms |-> [i \in PromptIdx |-> NewTask]]
    /\ platform_responses = [p \in Platforms |-> <<>>]
    /\ all_responses = <<>>
    /\ platform_analysis = [p \in Platforms |-> None]
    /\ run_prompt_results = <<>>
    /\ overtaken = FALSE
    /\ ceiling_hit = FALSE
    /\ dataset = <<>>
    /\ main_exc = None

\* Lines 223-229: the query_platform tasks are created and gathered.
RunInit ==
    /\ phase = "query"
    /\ ppc = [p \in Platforms |-> "new"]
    /\ batch_start = [p \in Platforms |-> 0]
    /\ tasks = [p \in Platforms |-> [i \in PromptIdx |-> NewTask]]
    /\ platform_responses = [p \in Platforms |-> <<>>]
    /\ all_responses = <<>>
    /\ platform_analysis = [p \in Platforms |-> None]
    /\ run_prompt_results = <<>>
    /\ overtaken = FALSE
    /\ ceiling_hit = FALSE
    /\ dataset = <<>>
    /\ main_exc = None

\* query_platform starts (lines 190-207): the first batch is submitted.
StartPlatform(p) ==
    /\ phase = "query"
    /\ ppc[p] = "new"
    /\ tasks' = [tasks EXCEPT ![p] = StartBatch(tasks[p], 0)]
    /\ ppc' = [ppc EXCEPT ![p] = "gather"]
    /\ UNCHANGED <<phase, batch_start, platform_responses, all_responses,
                   platform_analysis, run_prompt_results, overtaken,
                   ceiling_hit>>
    /\ UNCHANGED tvars
    /\ UNCHANGED outsideRun

\* The awaited client.query of task i of platform p ends with outcome o;
\* query_with_retry goes to its backoff sleep, or returns and
\* query_single_prompt logs the outcome and returns the response record.
QueryReturns(p, i, o) ==
    /\ phase = "query"
    /\ tasks[p][i].st = "query"
    /\ o = PlainAnswer \/ i \in FaultyPrompts
    /\ LET t == tasks[p][i]
           qr == query_with_retry(t, o)
           pid == prompt_id(p, i)
       IN IF qr = None
          THEN /\ tasks' = [tasks EXCEPT
                              ![p][i] = Sleeping(t.attempt, LastError(o))]
               /\ UNCHANGED <<tvars, overtaken>>
          ELSE /\ tasks' = [tasks EXCEPT ![p][i] =
                              Returned(query_single_prompt(p, pid,
                                                           qr[1]))]
               /\ overtaken' = (overtaken \/
                                 \E j \in BatchOf(batch_start[p]) :
                                     j < i /\ tasks[p][j].st # "done")
               /\ IF qr[1].success
                  THEN /\ successes' =
                            add_success(successes,
                                        SuccessRecord(Context(p, pid)))
                       /\ UNCHANGED errors
                  ELSE /\ errors' =
                            add_error(errors,
                                ErrorRecord("query_failed",
                                            qr[1].error[1],
                                            Some(Context(p, pid))))
                       /\ UNCHANGED successes
    /\ UNCHANGED <<phase, ppc, batch_start, platform_responses,
                   all_responses, platform_analysis, run_prompt_results, ceiling_hit>>
    /\ UNCHANGED outsideRun

\* The backoff sleep of task i ends (base.py 99-102): the next attempt.
BackoffReturns(p, i) ==
    /\ phase = "query"
    /\ tasks[p][i].st = "sleep"
    /\ tasks' = [tasks EXCEPT ![p][i] =
                    Querying(tasks[p][i].attempt + 1,
                             tasks[p][i].last_error)]
    /\ UNCHANGED <<phase, ppc, batch_start, platform_responses,
                   all_responses, platform_analysis, run_prompt_results,
                   overtaken, ceiling_hit>>
    /\ UNCHANGED tvars
    /\ UNCHANGED outsideRun

\* The gather of a batch returns (lines 207-221): the records are appended
\* in task order; then the sleep before the next batch, or the return.
GatherReturns(p) ==
    /\ phase = "query"
    /\ ppc[p] = "gather"
    /\ \A i \in BatchOf(batch_start[p]) : tasks[p][i].st = "done"
    /\ platform_responses' =
           [platform_responses EXCEPT
               ![p] = @ \o BatchResults(tasks[p], batch_start[p])]
    /\ ppc' = [ppc EXCEPT ![p] = IF batch_start[p] + BATCH_SIZE < MaxPrompts
                                 THEN "sleep"
                                 ELSE "returned"]
    /\ UNCHANGED <<phase, batch_start, tasks, all_responses, platform_analysis, run_prompt_results, overtaken, ceiling_hit>>
    /\ UNCHANGED tvars
    /\ UNCHANGED outsideRun

\* The sleep between two batches ends (line 217): the next batch.
BatchSleepReturns(p) ==
    /\ phase = "query"
    /\ ppc[p] = "sleep"
    /\ batch_start' = [batch_start EXCEPT ![p] = @ + BATCH_SIZE]
    /\ tasks' = [tasks EXCEPT
                    ![p] = StartBatch(tasks[p], batch_start[p] + BATCH_SIZE)]
    /\ ppc' = [ppc EXCEPT ![p] = "gather"]
    /\ UNCHANGED <<phase, platform_responses, all_responses, platform_analysis, run_prompt_results, overtaken, ceiling_hit>>
    /\ UNCHANGED tvars
    /\ UNCHANGED outsideRun

\* An exception escapes from query_platform p outside the guarded query
\* calls: from the statement before the first batch (line 192) or from the
\* one after the last (line 220).  The list the task built is lost.
PlatformTaskRaises(p) ==
    /\ phase = "query"
    /\ \/ ppc[p] = "new"
       \/ /\ ppc[p] = "gather"
          /\ batch_start[p] + BATCH_SIZE >= MaxPrompts
          /\ \A i \in BatchOf(batch_start[p]) : tasks[p][i].st = "done"
    /\ ppc' = [ppc EXCEPT ![p] = "raised"]
    /\ platform_responses' = [platform_responses EXCEPT ![p] = <<>>]
    /\ UNCHANGED <<phase, batch_start, tasks, all_responses, platform_analysis, run_prompt_results, overtaken, ceiling_hit>>
    /\ UNCHANGED tvars
    /\ UNCHANGED outsideRun

\* The wall clock passes the ceiling of the query phase.  Line 229 awaits
\* the gather without a timeout, so nothing of the run changes.
CeilingPasses ==
    /\ phase = "query"
    /\ ~ceiling_hit
    /\ ceiling_hit' = TRUE
    /\ UNCHANGED <<phase, ppc, batch_start, tasks, platform_responses,
                   all_responses, platform_analysis, run_prompt_results,
                   overtaken>>
    /\ UNCHANGED tvars
    /\ UNCHANGED outsideRun

\* A variant of GatherDone that ends the gather at the first task that
\* raised.
GatherDoneFailFast ==
    \/ \E p \in Platforms : ppc[p] = "raised"
    \/ \A p \in Platforms : ppc[p] = "returned"

\* Line 229: gather(*platform_tasks, return_exceptions=True) returns when
\* every task has returned or raised.
GatherDone == \A p \in Platforms : ppc[p] \in {"returned", "raised"}

\* Lines 231-237: the lists of the tasks that returned, in task order.
RECURSIVE Extend(_)
Extend(order) ==
    IF order = <<>>
    THEN <<>>
    ELSE (IF ppc[Head(order)] = "returned"
          THEN platform_responses[Head(order)]
          ELSE <<>>) \o Extend(Tail(order))

\* Lines 231-237: one platform_exception record per task that did not
\* return a list.
RECURSIVE PlatformExceptions(_, _)
PlatformExceptions(log, order) ==
    IF order = <<>>
    THEN log
    ELSE PlatformExceptions(
             IF ppc[Head(order)] = "returned"
             THEN log
             ELSE add_error(log, ErrorRecord("platform_exception",
                                             "Exception", None)),
             Tail(order))

\* The gather of the platform tasks returns and the responses are
\* collected (lines 229-246).
CollectResponses ==
    /\ phase = "query"
    /\ GatherDone
    /\ all_responses' = Extend(PlatformOrder)
    /\ errors' = PlatformExceptions(errors, PlatformOrder)
    /\ phase' = "analyze"
    /\ UNCHANGED <<ppc, batch_start, tasks, platform_responses, platform_analysis, run_prompt_results, overtaken, ceiling_hit>>
    /\ UNCHANGED successes
    /\ UNCHANGED outsideRun

\* Line 272: the responses that succeeded with a non-empty text.
IsValid(r) == r.success /\ r.response # ""
valid_responses == SelectSeq(all_responses, IsValid)

\* Lines 275-280: platform_responses[platform], the valid responses of a
\* platform in their order, and the keys of the dict in insertion order.
Group(platform) ==
    LET OfPlatform(r) == r.platform = platform
    IN SelectSeq(valid_responses, OfPlatform)

RECURSIVE GroupKeys(_, _)
GroupKeys(resps, seen) ==
    IF resps = <<>>
    THEN <<>>
    ELSE IF Head(resps).platform \in seen
    THEN GroupKeys(Tail(resps), seen)
    ELSE <<Head(resps).platform>>
         \o GroupKeys(Tail(resps), seen \cup {Head(resps).platform})

\* The entry of the analyses array the service returns for the k-th answer
\* of a batch.
AnalysisOf(ids, k) ==
    Analysis(JText(ids[k]),
             JList(<<IF k % 2 = 1 THEN ItemAc ELSE ItemZe>>),
             Missing)

\* What the completion service does for a batch of answers: it fails, or
\* returns the analyses in the order of the answers, in the opposite
\* order, or without the analysis of the first answer.
AnalysisOutcomes(ids) ==
    LET n == Len(ids)
        in_order == [k \in 1..n |-> AnalysisOf(ids, k)]
        reversed == [k \in 1..n |-> AnalysisOf(ids, n + 1 - k)]
    IN { [t |-> "raise", error |-> "ServiceError"],
         [t |-> "content", wrap |-> "bare",
          body |-> Response(JList(in_order))],
         [t |-> "content", wrap |-> "bare",
          body |-> Response(JList(reversed))],
         [t |-> "content", wrap |-> "bare",
          body |-> Response(JList(Tail(in_order)))] }

PromptIdsOf(resps) == [k \in 1..Len(resps) |-> resps[k].prompt_id]

\* analyze_platform_batch of one platform (lines 282-347), with any
\* outcome of the service call.
AnalyzePlatform(p) ==
    /\ phase = "analyze"
    /\ Group(p) # <<>>
    /\ platform_analysis[p] = None
    /\ \E outcome \in AnalysisOutcomes(PromptIdsOf(Group(p))) :
           platform_analysis' = [platform_analysis EXCEPT ![p] =
               Some([service |-> outcome,
                     results |->
                         BuildPromptResults(
                             Group(p),
                             extract_batch(outcome, PromptIdsOf(Group(p)),
                                           TrackedBrands),
                             TrackedBrands)])]
    /\ UNCHANGED <<phase, ppc, batch_start, tasks, platform_responses,
                   all_responses, run_prompt_results, overtaken,
                   ceiling_hit>>
    /\ UNCHANGED tvars
    /\ UNCHANGED outsideRun

\* Lines 357-376: the lists of the analysis tasks, in task order.
RECURSIVE ExtendResults(_)
ExtendResults(keys) ==
    IF keys = <<>>
    THEN <<>>
    ELSE platform_analysis[Head(keys)][1].results \o ExtendResults(Tail(keys))

\* A call with keyword arguments binds when every keyword names a parameter
\* and every parameter without a default gets a value; otherwise Python
\* raises TypeError before the body runs.
Binds(keywords, params, defaults) ==
    /\ keywords \subseteq params
    /\ (params \ defaults) \subseteq keywords

\* The parameters of format_prompt_result (src/src/output/formatters.py
\* 9-19) and the keywords of its call in main (main.py 368-378).
format_prompt_result_params ==
    {"prompt_id", "prompt_text", "platform", "platform_model",
     "raw_response", "mentions", "citations", "my_brand", "competitors"}
format_prompt_result_keywords ==
    {"prompt_id", "prompt_text", "platform", "platform_model",
     "raw_response", "mentions", "citations", "your_brand", "competitors"}

\* The parameters of format_run_summary (formatters.py 145-158), the one
\* with a default, and the keywords of its call in main (main.py 435-447).
format_run_summary_params ==
    {"status", "category", "my_brand", "competitors", "platforms",
     "prompt_count", "started_at", "completed_at", "prompts_processed",
     "responses_collected", "events_charged", "price_per_event"}
format_run_summary_defaults == {"price_per_event"}
format_run_summary_keywords ==
    {"status", "category", "your_brand", "competitors", "platforms",
     "prompt_count", "started_at", "completed_at", "prompts_processed",
     "responses_collected", "events_charged"}

\* format_prompt_result (formatters.py 9-88), which computes the winner and
\* the loser again from the mentions.
format_prompt_result(r, my_brand, competitor_names) ==
    LET mentions == r.mentions
        win_keys == [i \in 1..Len(mentions) |->
                        <<0 - mentions[i].count, mentions[i].rank>>]
        lose_keys == [i \in 1..Len(mentions) |-> <<mentions[i].count, 0>>]
        my_brand_mention == brand_mention_of(mentions, my_brand)
        mentioned_brands == [i \in 1..Len(mentions) |-> mentions[i].brand]
        IsMentioned(c) == InLowered(c, mentioned_brands)
        IsMissed(c) == ~InLowered(c, mentioned_brands)
    IN [type |-> "prompt_result",
        promptId |-> r.prompt_id,
        platform |-> r.platform,
        rawResponse |-> r.raw_response,
        mentions |-> mentions,
        citations |-> r.citations,
        promptWinner |->
            IF mentions = <<>>
            THEN None
            ELSE Some(mentions[SortedIndices(win_keys,
                                             1..Len(mentions))[1]].brand),
        promptLoser |->
            IF Len(mentions) > 1
            THEN Some(mentions[SortedIndices(lose_keys,
                                             1..Len(mentions))[1]].brand)
            ELSE None,
        myBrandMentioned |-> (my_brand_mention # None),
        myBrandRank |->
            IF my_brand_mention # None
            THEN Some(my_brand_mention[1].rank)
            ELSE None,
        competitorsMentioned |-> SelectSeq(competitor_names, IsMentioned),
        competitorsMissed |-> SelectSeq(competitor_names, IsMissed)]

\* Lines 357-365: the lists of the analysis tasks, in task order.
collected_results == ExtendResults(GroupKeys(valid_responses, {}))

\* The gather of the analysis tasks returns and the results are collected
\* and pushed (lines 355-379).  Each result is appended to prompt_results
\* and then formatted; the call of format_prompt_result passes your_brand,
\* which is not a parameter of the function, so the first result ends main
\* with TypeError.
CollectResults ==
    /\ phase = "analyze"
    /\ \A p \in Platforms : Group(p) # <<>> => platform_analysis[p] # None
    /\ IF collected_results = <<>>
       THEN /\ run_prompt_results' = <<>>
            /\ phase' = "analyzed"
            /\ UNCHANGED ovars
       ELSE IF Binds(format_prompt_result_keywords,
                     format_prompt_result_params, {})
       THEN /\ run_prompt_results' = collected_results
            /\ dataset' = dataset \o
                   [k \in 1..Len(collected_results) |->
                       format_prompt_result(collected_results[k],
                                            your_brand(TrackedBrands),
                                            competitors(TrackedBrands))]
            /\ phase' = "analyzed"
            /\ UNCHANGED main_exc
       ELSE /\ run_prompt_results' = <<collected_results[1]>>
            /\ phase' = "raised"
            /\ main_exc' = Some("TypeError")
            /\ UNCHANGED dataset
    /\ UNCHANGED <<ppc, batch_start, tasks, platform_responses,
                   all_responses, platform_analysis, overtaken, ceiling_hit>>
    /\ UNCHANGED tvars
    /\ UNCHANGED outsideMain

\* format_brand_summary (formatters.py 91-121) with the rank and the number
\* of brands main sets afterwards (main.py 407-417): the rank of the first
\* leaderboard entry with the brand's name, 0 without one.
format_brand_summary(metrics, rankings, all_brands) ==
    LET idx == {i \in 1..Len(rankings) : rankings[i].brand = metrics.brand}
    IN [type |-> "brand_summary",
        brand |-> metrics.brand,
        overallMetrics |->
            [visibilityScore |-> metrics.visibility_score,
             citationShare |-> metrics.citation_share,
             totalMentions |-> metrics.total_mentions,
             totalPromptsAnalyzed |-> metrics.total_prompts_analyzed,
             promptsWithMention |-> metrics.prompts_with_mention,
             promptsMissed |-> metrics.prompts_missed],
        platformBreakdown |-> metrics.platform_breakdown,
        competitivePosition |->
            [rank |-> IF idx = {}
                      THEN 0
                      ELSE rankings[CHOOSE i \in idx :
                                      \A j \in idx : i <= j].rank,
             totalBrands |-> Len(all_brands),
             promptsWon |-> metrics.prompts_won,
             promptsLost |-> metrics.prompts_lost,
             promptsTied |-> metrics.prompts_tied],
        topContexts |-> metrics.top_contexts]

\* format_leaderboard (formatters.py 124-142).
format_leaderboard(rankings, platform_leaderboards) ==
    [type |-> "leaderboard",
     rankings |-> rankings,
     platformLeaderboards |-> platform_leaderboards]

\* Step 5 of main (lines 386-424): the metrics of every brand, the
\* leaderboards, one brand_summary per brand and the leaderboard record.
Metrics ==
    /\ phase = "analyzed"
    /\ LET brand_metrics_list ==
               BrandMetricsList(run_prompt_results, TrackedBrands)
           rankings == build_leaderboard(brand_metrics_list)
           platform_leaderboards ==
               build_platform_leaderboards(brand_metrics_list, PlatformOrder)
       IN dataset' = dataset \o
              [b \in 1..Len(brand_metrics_list) |->
                  format_brand_summary(brand_metrics_list[b], rankings,
                                       TrackedBrands)]
              \o <<format_leaderboard(rankings, platform_leaderboards)>>
    /\ phase' = "metrics"
    /\ UNCHANGED <<ppc, batch_start, tasks, platform_responses,
                   all_responses, platform_analysis, run_prompt_results,
                   overtaken, ceiling_hit, main_exc>>
    /\ UNCHANGED tvars
    /\ UNCHANGED outsideMain

\* format_run_summary (formatters.py 145-203), without the timestamps.
format_run_summary(status, prompts_processed, responses_collected, events_charged) ==
    [type |-> "run_summary",
     status |-> status,
     promptsProcessed |-> prompts_processed,
     responsesCollected |-> responses_collected,
     eventsCharged |-> events_charged]

\* The record of lines 462-477.  tracker.warnings stays empty: main never
\* calls add_warning.  The listed errors are the last ten of a list whose
\* order is left open, so the record keeps their number only.
error_summary ==
    [type |-> "error_summary",
     totalErrors |-> BagCardinality(errors),
     totalWarnings |-> 0]

\* Step 6 of main (lines 429-479): the run_summary, the charge (inside its
\* own try, lines 450-458) and the error_summary.  The call of
\* format_run_summary passes your_brand, which is not a parameter of the
\* function: main ends with TypeError before anything is pushed.
Finalize ==
    /\ phase = "metrics"
    /\ IF Binds(format_run_summary_keywords, format_run_summary_params,
                format_run_summary_defaults)
       THEN /\ dataset' = dataset
                   \o <<format_run_summary("completed", MaxPrompts,
                                           Len(all_responses),
                                           Len(run_prompt_results))>>
                   \o (IF BagCardinality(errors) > 0
                       THEN <<error_summary>>
                       ELSE <<>>)
            /\ phase' = "finished"
            /\ UNCHANGED main_exc
       ELSE /\ phase' = "raised"
            /\ main_exc' = Some("TypeError")
            /\ UNCHANGED dataset
    /\ UNCHANGED <<ppc, batch_start, tasks, platform_responses,
                   all_responses, platform_analysis, run_prompt_results,
                   overtaken, ceiling_hit>>
    /\ UNCHANGED tvars
    /\ UNCHANGED outsideMain

(***************************************************************************)
(* PART IV -- the browser session of BaseBrowserClient                     *)
(* (src/src/browser_clients/base.py): initialize with its retry wrapper    *)
(* (lines 74-138) and close (lines 279-291).  Playwright is the            *)
(* environment: every awaited call returns or raises.  A resource is named *)
(* by its kind and by the initialize attempt that acquired it.             *)
(***************************************************************************)

\* The awaited calls of _init_impl that can fail, in order (lines 87-133).
\* The stealth call swallows its exception (lines 124-129) and the sleep of
\* line 131 cannot fail.
InitSteps ==
    <<"start", "launch", "new_context", "new_page", "goto", "platform_init">>

\* The attribute each call assigns, if any.
Acquires ==
    [start |-> "playwright", launch |-> "browser", new_context |-> "context",
     new_page |-> "page", goto |-> "none", platform_init |-> "none"]

\* The releases of close, in order (lines 282-289).
CloseSteps == <<"page", "context", "browser", "playwright">>

\* What a release ends besides the resource itself: a browser takes its
\* contexts and pages with it, a stopped playwright its browsers.
Owned ==
    [page |-> {"page"},
     context |-> {"context", "page"},
     browser |-> {"browser", "context", "page"},
     playwright |-> {"playwright", "browser", "context", "page"}]

SessionIdle ==
    /\ spc = "off"
    /\ init_attempt = 0
    /\ istep = 1
    /\ cstep = 1
    /\ self_refs = [k \in {"page", "context", "browser", "playwright"} |->
                       None]
    /\ live = {}
    /\ released = {}

\* BaseBrowserClient.__init__ (lines 43-49): page, browser and context are
\* None and the attribute playwright does not exist.
SessionInit ==
    /\ spc = "new"
    /\ init_attempt = 0
    /\ istep = 1
    /\ cstep = 1
    /\ self_refs = [k \in {"page", "context", "browser", "playwright"} |->
                       None]
    /\ live = {}
    /\ released = {}

\* initialize is called (line 85, 135).
InitializeCalled ==
    /\ spc = "new"
    /\ spc' = "init"
    /\ UNCHANGED <<init_attempt, istep, cstep, self_refs, live, released>>
    /\ UNCHANGED outsideSession

\* One awaited call of _init_impl returns: the resource exists and the
\* attribute refers to it.
InitStepReturns ==
    /\ spc = "init"
    /\ LET step == InitSteps[istep]
           kind == Acquires[step]
       IN /\ IF kind = "none"
             THEN UNCHANGED <<self_refs, live>>
             ELSE /\ self_refs' = [self_refs EXCEPT
                                      ![kind] = Some(init_attempt)]
                  /\ live' = live \cup {<<kind, init_attempt>>}
          /\ IF istep = Len(InitSteps)
             THEN spc' = "ready" /\ UNCHANGED istep
             ELSE spc' = "init" /\ istep' = istep + 1
    /\ UNCHANGED <<init_attempt, cstep, released>>
    /\ UNCHANGED outsideSession

\* One awaited call of _init_impl raises (lines 78-83): the last attempt
\* re-raises, an earlier one sleeps.  Nothing acquired so far is released.
InitStepRaises ==
    /\ spc = "init"
    /\ spc' = IF init_attempt = max_retries THEN "init_failed" ELSE "init_sleep"
    /\ UNCHANGED <<init_attempt, istep, cstep, self_refs, live, released>>
    /\ UNCHANGED outsideSession

\* The sleep of line 83 returns and _init_impl starts again.
InitRetry ==
    /\ spc = "init_sleep"
    /\ spc' = "init"
    /\ init_attempt' = init_attempt + 1
    /\ istep' = 1
    /\ UNCHANGED <<cstep, self_refs, live, released>>
    /\ UNCHANGED outsideSession

\* close is called: before initialize, after it returned or after it raised.
CloseCalled ==
    /\ spc \in {"new", "ready", "init_failed"}
    /\ spc' = "closing"
    /\ cstep' = 1
    /\ UNCHANGED <<init_attempt, istep, self_refs, live, released>>
    /\ UNCHANGED outsideSession

\* The position after the release at cstep.
AfterRelease == IF cstep = Len(CloseSteps) THEN "closed" ELSE "closing"

\* Lines 282-289: the attribute is unset, the release is skipped.
CloseStepSkips ==
    /\ spc = "closing"
    /\ self_refs[CloseSteps[cstep]] = None
    /\ spc' = AfterRelease
    /\ cstep' = IF cstep = Len(CloseSteps) THEN cstep ELSE cstep + 1
    /\ UNCHANGED <<init_attempt, istep, self_refs, live, released>>
    /\ UNCHANGED outsideSession

\* The release returns: the resource and what it owns are gone.
CloseStepReturns ==
    /\ spc = "closing"
    /\ self_refs[CloseSteps[cstep]] # None
    /\ LET kind == CloseSteps[cstep]
           id == self_refs[kind][1]
       IN live' = {x \in live : ~(x[1] \in Owned[kind] /\ x[2] = id)}
    /\ released' = released \cup {CloseSteps[cstep]}
    /\ spc' = AfterRelease
    /\ cstep' = IF cstep = Len(CloseSteps) THEN cstep ELSE cstep + 1
    /\ UNCHANGED <<init_attempt, istep, self_refs>>
    /\ UNCHANGED outsideSession

\* The release raises: the handler of lines 290-291 raises again, so close
\* ends here with the exception and the later releases are not made.
CloseStepRaises ==
    /\ spc = "closing"
    /\ self_refs[CloseSteps[cstep]] # None
    /\ spc' = "close_raised"
    /\ released' = released \cup {CloseSteps[cstep]}
    /\ UNCHANGED <<init_attempt, istep, cstep, self_refs, live>>
    /\ UNCHANGED outsideSession

(***************************************************************************)
(* PART V -- MetricsCalculator applied to bounded inputs: determine_winner *)
(* and determine_loser on a mention list (main.py 305-306), and the        *)
(* metrics and leaderboards of step 5 of main (main.py 389-404) on a list  *)
(* of PromptResults.                                                       *)
(***************************************************************************)

\* Largest count and largest rank of a mention handed to determine_winner.
MaxMentionCount == 3
MaxRank == 2

\* Largest count of a mention in the PromptResults handed to the metrics.
MaxShareCount == 2

\* all_brands of the metrics: the user's brand, then two competitors.
MetricBrands == TrackedBrands \o << <<"M", "o">> >>

\* The mentions determine_winner and determine_loser are applied to: any
\* tracked brand with any count and rank, so that lists hold equal counts,
\* equal ranks and the same brand twice.
MentionPool ==
    {BrandMention(MetricBrands[b], c, r, <<>>, FALSE) :
        b \in 1..Len(MetricBrands), c \in 1..MaxMentionCount,
        r \in 1..MaxRank}

MentionLists == SeqsUpTo(MentionPool, Len(MetricBrands))

\* A mention list as _parse_batch_response builds it when the service
\* gives counts and no rank: the rank is the position in the list
\* (mention_extractor.py 220).
Ranked(pairs) ==
    [i \in 1..Len(pairs) |->
        BrandMention(MetricBrands[pairs[i][1]], pairs[i][2], i, <<>>, FALSE)]

\* The mention lists of the PromptResults: none, one brand, the user's
\* brand with a competitor, the user's brand twice, and two brands with the
\* same count and the rank 1 given by the service for both.
ShareLists ==
    LET C == 1..MaxShareCount
    IN {<<>>}
       \cup {Ranked(<< <<b, c>> >>) : b \in 1..Len(MetricBrands), c \in C}
       \cup {Ranked(<< <<1, c>>, <<b, d>> >>) :
                b \in 1..Len(MetricBrands), c \in C, d \in C}
       \cup {<<BrandMention(MetricBrands[1], c, 1, <<>>, FALSE),
               BrandMention(MetricBrands[2], c, 1, <<>>, FALSE)>> : c \in C}

\* The mention lists of a slot: any list of ShareLists on the first
\* platform, none or one brand on the second.
SlotLists(slot) ==
    IF slot[1] = PlatformOrder[1]
    THEN ShareLists
    ELSE {ms \in ShareLists : Len(ms) <= 1}

\* The (platform, prompt) pairs a PromptResult can exist for, in the order
\* main collects the results: platform by platform, prompts in order.
ResultSlots ==
    << <<"chatgpt", "prompt_001">>, <<"chatgpt", "prompt_002">>,
       <<"gemini", "prompt_001">> >>

\* The PromptResult analyze_platform_batch builds for a slot and a mention
\* list.
SlotResult(slot, mentions) ==
    BuildPromptResult(
        ResponseRecord(slot[2], slot[1], "answer", TRUE, None),
        <<ExtractionResult(slot[2], mentions, <<>>)>>,
        MetricBrands)

\* The PromptResult lists: each slot has no result (the query failed or its
\* platform's analysis failed) or a result with any mention list.
RECURSIVE ResultLists(_)
ResultLists(slots) ==
    IF slots = <<>>
    THEN {<<>>}
    ELSE LET rest == ResultLists(Tail(slots))
         IN rest \cup
            {<<SlotResult(Head(slots), ms)>> \o tl :
                ms \in SlotLists(Head(slots)), tl \in rest}

\* Number of PromptResults in the lists that carry contexts.
MaxContextResults == 6

\* A context of dedup_prefix + 1 characters: c repeated, then last.
ContextText(c, last) ==
    [i \in 1..(dedup_prefix + 1) |-> IF i <= dedup_prefix THEN c ELSE last]

ContextLetters == <<"p", "q", "r", "s", "t", "u", "v", "w">>

\* The context of the user's brand in the k-th PromptResult: none, one that
\* no other result has, or one of two that differ in case and in their
\* last character only.
ContextChoices(k) ==
    {<<>>, ContextText(ContextLetters[k], "a"),
     IF k % 2 = 1 THEN ContextText("X", "a") ELSE ContextText("x", "b")}

\* PromptResult lists of k prompts on chatgpt, each with one mention of the
\* user's brand and any context of ContextChoices.
RECURSIVE ContextLists(_)
ContextLists(k) ==
    IF k = 0
    THEN {<<>>}
    ELSE {Append(l, SlotResult(<<"chatgpt", prompt_id("chatgpt", k)>>,
                               <<BrandMention(MetricBrands[1], 1, 1, c,
                                              FALSE)>>)) :
             l \in ContextLists(k - 1), c \in ContextChoices(k)}

MentionsIdle ==
    /\ wpc = "off"
    /\ w_mentions = <<>>
    /\ w_winner = None
    /\ w_loser = None
    /\ w_record = None

MentionsInit ==
    /\ wpc = "mentions"
    /\ w_mentions \in MentionLists
    /\ w_winner = None
    /\ w_loser = None
    /\ w_record = None

\* main.py 305: prompt_winner = determine_winner(mentions).
DetermineWinner ==
    /\ wpc = "mentions"
    /\ w_winner' = determine_winner(w_mentions)
    /\ wpc' = "winner"
    /\ UNCHANGED <<w_mentions, w_loser, w_record>>
    /\ UNCHANGED <<mpc, m_results, m_brand_metrics, m_rankings,
                   m_platform_leaderboards, m_again>>
    /\ UNCHANGED outsideMetrics

\* main.py 306: prompt_loser = determine_loser(mentions).
DetermineLoser ==
    /\ wpc = "winner"
    /\ w_loser' = determine_loser(w_mentions)
    /\ wpc' = "loser"
    /\ UNCHANGED <<w_mentions, w_winner, w_record>>
    /\ UNCHANGED <<mpc, m_results, m_brand_metrics, m_rankings,
                   m_platform_leaderboards, m_again>>
    /\ UNCHANGED outsideMetrics

\* main.py 368-378: the record format_prompt_result builds for the result,
\* taken as a function of its arguments.
FormatPromptResult ==
    /\ wpc = "loser"
    /\ w_record' =
           Some(format_prompt_result(
                    SlotResult(ResultSlots[1], w_mentions),
                    your_brand(MetricBrands), competitors(MetricBrands)))
    /\ wpc' = "record"
    /\ UNCHANGED <<w_mentions, w_winner, w_loser>>
    /\ UNCHANGED <<mpc, m_results, m_brand_metrics, m_rankings,
                   m_platform_leaderboards, m_again>>
    /\ UNCHANGED outsideMetrics

MetricsIdle ==
    /\ mpc = "off"
    /\ m_results = <<>>
    /\ m_brand_metrics = <<>>
    /\ m_rankings = <<>>
    /\ m_platform_leaderboards = <<>>
    /\ m_again = None

MetricsInit ==
    /\ mpc = "results"
    /\ m_results \in
           ResultLists(ResultSlots) \cup ContextLists(MaxContextResults)
    /\ m_brand_metrics = <<>>
    /\ m_rankings = <<>>
    /\ m_platform_leaderboards = <<>>
    /\ m_again = None

\* main.py 389-397: calculate_brand_metrics for every brand of all_brands.
CalculateMetrics ==
    /\ mpc = "results"
    /\ m_brand_metrics' = BrandMetricsList(m_results, MetricBrands)
    /\ mpc' = "metrics"
    /\ UNCHANGED <<m_results, m_rankings, m_platform_leaderboards, m_again>>
    /\ UNCHANGED <<wpc, w_mentions, w_winner, w_loser, w_record>>
    /\ UNCHANGED outsideMetrics

\* A variant of BuildLeaderboards whose sort reorders brand_metrics_list
\* itself.
BuildLeaderboardsInPlace ==
    /\ mpc = "metrics"
    /\ LET keys == [i \in 1..Len(m_brand_metrics) |->
                       <<0 - m_brand_metrics[i].total_mentions,
                         0 - m_brand_metrics[i].visibility_score>>]
           order == SortedIndices(keys, 1..Len(m_brand_metrics))
       IN m_brand_metrics' =
              [i \in 1..Len(order) |-> m_brand_metrics[order[i]]]
    /\ m_rankings' = build_leaderboard(m_brand_metrics)
    /\ m_platform_leaderboards' =
           build_platform_leaderboards(m_brand_metrics, PlatformOrder)
    /\ mpc' = "leaderboards"
    /\ UNCHANGED <<m_results, m_again>>
    /\ UNCHANGED <<wpc, w_mentions, w_winner, w_loser, w_record>>
    /\ UNCHANGED outsideMetrics

\* main.py 400-404: the leaderboard and the platform leaderboards.
BuildLeaderboards ==
    /\ mpc = "metrics"
    /\ m_rankings' = build_leaderboard(m_brand_metrics)
    /\ m_platform_leaderboards' =
           build_platform_leaderboards(m_brand_metrics, PlatformOrder)
    /\ mpc' = "leaderboards"
    /\ UNCHANGED <<m_results, m_brand_metrics, m_again>>
    /\ UNCHANGED <<wpc, w_mentions, w_winner, w_loser, w_record>>
    /\ UNCHANGED outsideMetrics

\* The aggregation of lines 389-404 applied to prompt_results once more.
CalculateAgain ==
    /\ mpc = "leaderboards"
    /\ LET again == BrandMetricsList(m_results, MetricBrands)
       IN m_again' =
              Some([brand_metrics |-> again,
                    rankings |-> build_leaderboard(again),
                    platform_leaderboards |->
                        build_platform_leaderboards(again, PlatformOrder)])
    /\ mpc' = "again"
    /\ UNCHANGED <<m_results, m_brand_metrics, m_rankings,
                   m_platform_leaderboards>>
    /\ UNCHANGED <<wpc, w_mentions, w_winner, w_loser, w_record>>
    /\ UNCHANGED outsideMetrics

\* Step 5 of main (lines 389-397) applied to the PromptResults of one
\* platform analysed alone.
AggregateResults ==
    /\ epc = "analyzed"
    /\ m_brand_metrics' = BrandMetricsList(prompt_results, brands)
    /\ epc' = "aggregated"
    /\ UNCHANGED <<responses, brands, service, extraction, llm_calls,
                   prompt_results>>
    /\ UNCHANGED <<wpc, w_mentions, w_winner, w_loser, w_record, mpc,
                   m_results, m_rankings, m_platform_leaderboards, m_again>>
    /\ UNCHANGED <<qvars, tvars, rvars, ovars, svars, bvars>>

(***************************************************************************)
(* PART VI -- BasePlatformClient.query_with_retry called on its own, with  *)
(* any max_retries up to the default of the function.                      *)
(***************************************************************************)

\* Largest max_retries of a call: the default of the parameter
\* (platforms/base.py 71).
MaxRetries == 3

\* What client.query does in a call of its own: the outcomes of Part III
\* and a failed result whose error is str(e) of an exception without text.
RetryOutcomes ==
    QueryOutcomes \cup {QueryReturned(QueryResult("", FALSE, Some("")))}

RetryIdle ==
    /\ rtask = [st |-> "off", attempt |-> 0, last_error |-> None,
                result |-> None]
    /\ rmax = 0
    /\ rlog = <<>>
    /\ rwaits = <<>>

\* query_with_retry is called: the loop starts with attempt 0 and awaits
\* query (lines 84-87).
RetryInit ==
    /\ rtask = Querying(0, None)
    /\ rmax \in 1..MaxRetries
    /\ rlog = <<>>
    /\ rwaits = <<>>

\* The awaited query ends with outcome o (lines 86-102): the function
\* returns, or it starts the backoff sleep of 2 ** attempt seconds.
RetryQueryEnds(o) ==
    /\ rtask.st = "query"
    /\ rlog' = Append(rlog, o)
    /\ LET qr == query_with_retry_from(rtask, o, rmax)
       IN IF qr = None
          THEN /\ rtask' = Sleeping(rtask.attempt, LastError(o))
               /\ rwaits' = Append(rwaits, 2 ^ rtask.attempt)
          ELSE /\ rtask' = Returned(qr[1])
               /\ UNCHANGED rwaits
    /\ UNCHANGED rmax
    /\ UNCHANGED outsideRetry

\* The backoff sleep ends (line 102): the next attempt.
RetryBackoffEnds ==
    /\ rtask.st = "sleep"
    /\ rtask' = Querying(rtask.attempt + 1, rtask.last_error)
    /\ UNCHANGED <<rmax, rlog, rwaits>>
    /\ UNCHANGED outsideRetry

\* ErrorTracker.__init__ (tracker.py 29-32).
TrackerInit ==
    /\ errors = EmptyBag
    /\ successes = EmptyBag

\* The parts a specification is not about stay off.
PartVIdle == MentionsIdle /\ MetricsIdle /\ RetryIdle

Init ==
    /\ QueryInit /\ ExtractIdle /\ TrackerInit /\ RunIdle /\ SessionIdle
    /\ PartVIdle

Next ==
    \/ StartQuery
    \/ FindTextbox
    \/ CaptureOldCount
    \/ Submit
    \/ PollCount
    \/ NoNewMessage
    \/ PollText
    \/ StabilityTimeout
    \/ FinalRead
    \/ RetrySleep
    \/ QueryExcept

Spec == Init /\ [][Next]_vars

\* extract_batch applied to every input of ExtractInit.
InitExtract ==
    /\ QueryInit /\ ExtractInit /\ TrackerInit /\ RunIdle /\ SessionIdle
    /\ PartVIdle

NextExtract == ExtractBatch \/ BuildResults \/ AggregateResults

SpecExtract == InitExtract /\ [][NextExtract]_vars
\* The query call under the scheduling the event loop guarantees: every
\* awaited page operation and every sleep returns, so a pending step of the
\* coroutine is eventually taken.
FairSpec == Init /\ [][Next]_vars /\ WF_vars(Next)

\* The query and analysis phases of main.
InitRun ==
    /\ QueryInit /\ ExtractIdle /\ TrackerInit /\ RunInit /\ SessionIdle
    /\ PartVIdle

NextRun ==
    \/ \E p \in Platforms : StartPlatform(p)
    \/ \E p \in Platforms : \E i \in PromptIdx : \E o \in QueryOutcomes :
           QueryReturns(p, i, o)
    \/ \E p \in Platforms : \E i \in PromptIdx : BackoffReturns(p, i)
    \/ \E p \in Platforms : GatherReturns(p)
    \/ \E p \in Platforms : BatchSleepReturns(p)
    \/ CollectResponses
    \/ \E p \in Platforms : AnalyzePlatform(p)
    \/ CollectResults

SpecRun == InitRun /\ [][NextRun]_vars

\* The run to its end, when an exception can escape from a platform task.
NextRunRaise ==
    \/ NextRun
    \/ \E p \in Platforms : PlatformTaskRaises(p)
    \/ Metrics
    \/ Finalize

SpecRunRaise == InitRun /\ [][NextRunRaise]_vars

\* The same phases observed against the wall clock.
NextRunCeiling ==
    \/ NextRun
    \/ CeilingPasses

SpecRunCeiling == InitRun /\ [][NextRunCeiling]_vars

\* One browser session: initialize, then close; or close alone.
InitSession ==
    /\ QueryInit /\ ExtractIdle /\ TrackerInit /\ RunIdle /\ SessionInit
    /\ PartVIdle

NextSession ==
    \/ InitializeCalled
    \/ InitStepReturns
    \/ InitStepRaises
    \/ InitRetry
    \/ CloseCalled
    \/ CloseStepSkips
    \/ CloseStepReturns
    \/ CloseStepRaises

SpecSession == InitSession /\ [][NextSession]_vars

\* determine_winner and determine_loser applied to every list of
\* MentionLists.
InitMentions ==
    /\ QueryInit /\ ExtractIdle /\ TrackerInit /\ RunIdle /\ SessionIdle
    /\ MentionsInit /\ MetricsIdle /\ RetryIdle

NextMentions == DetermineWinner \/ DetermineLoser \/ FormatPromptResult

SpecMentions == InitMentions /\ [][NextMentions]_vars

\* Step 5 of main applied to every list of ResultLists.
InitMetrics ==
    /\ QueryInit /\ ExtractIdle /\ TrackerInit /\ RunIdle /\ SessionIdle
    /\ MentionsIdle /\ MetricsInit /\ RetryIdle

NextMetrics == CalculateMetrics \/ BuildLeaderboards \/ CalculateAgain

SpecMetrics == InitMetrics /\ [][NextMetrics]_vars

\* One call of query_with_retry.
InitRetryCall ==
    /\ QueryInit /\ ExtractIdle /\ TrackerInit /\ RunIdle /\ SessionIdle
    /\ MentionsIdle /\ MetricsIdle /\ RetryInit

NextRetryCall ==
    \/ \E o \in RetryOutcomes : RetryQueryEnds(o)
    \/ RetryBackoffEnds

SpecRetry == InitRetryCall /\ [][NextRetryCall]_vars

(***************************************************************************)
(* Properties of BaseBrowserClient.query                                   *)
(***************************************************************************)

AllEqual(s) == \A i \in 1..Len(s) : s[i] = s[1]

\* C1: the stability wait returns True only after the text was read
\* non-empty and identical on required_stable comparisons in a row; a read
\* that differs from the previous one leaves the counter at 0, an empty read
\* leaves it at 0, and while the reads follow the false-plateau scenario
\* (7 reads, 3 of them on the final value) Complete is not signalled.
StableOnlyAfterRequiredCount ==
    /\ complete =>
         /\ Len(reads) = required_stable + 1
         /\ AllEqual(reads)
         /\ reads[1] # ""
    /\ (Len(reads) >= 2 /\ reads[Len(reads)] # reads[Len(reads) - 1])
         => stable_count = 0
    /\ (reads # <<>> /\ Last(reads) = "") => stable_count = 0
    /\ scen >= 1 => ~complete

WitnessStableComplete ==
    /\ complete
    /\ pc = "done"
    /\ Len(reads) = required_stable + 1

\* C2: in every attempt the baseline count is captured before Enter is
\* pressed, and no response text is read (by the stability wait or by the
\* final read) before a count poll of the same attempt exceeded the baseline.
TextReadOnlyAfterCountGate ==
    /\ entered => baseline
    /\ gate => entered
    /\ textRead => gate
    /\ pc \in {"stream", "final"} => gate
    /\ finalText # None => gate

WitnessTextReadAfterGateOnRetry ==
    /\ attempt = 1
    /\ textRead
    /\ gate
    /\ finalText # None

\* C3: when no count poll exceeded the baseline within the turn-appearance
\* timeout, the attempt ends with success=false, an empty response and the
\* "count did not increase" error, which differs from the empty-text error
\* (reported only after a new message appeared).
NoNewMessageIsReported ==
    /\ (pc = "done" /\ entered /\ ~gate /\ checks = max_checks) =>
         result = Some(BrowserQueryResult("", FALSE, Some(NoNewMessageError)))
    /\ (pc = "done" /\ result[1].error = Some(NoNewMessageError)) =>
         ~gate /\ checks = max_checks
    /\ (pc = "done" /\ result[1].error = Some(EmptyResponseError)) => gate
    /\ NoNewMessageError # EmptyResponseError

WitnessNoNewMessage ==
    /\ pc = "done"
    /\ timedOut = "await"
    /\ ~gate
    /\ checks = max_checks

\* C4 as stated: whenever the completion detection timed out (in either
\* wait), one last read of the response text is made and decides the result.
LastReadAfterEveryTimeout ==
    (pc = "done" /\ timedOut # "no") =>
        /\ finalRead
        /\ finalText # None =>
             result = Some(FinalResult(finalText[1]))

\* C4 amended: after a timeout of the stability wait the final read is made,
\* and a text it returns decides the result (non-empty: success with that
\* text, empty: failure); after a timeout of the turn-appearance wait no
\* response text is read and the result is the "count did not increase"
\* failure.
LastReadAfterStabilityTimeout ==
    /\ (timedOut = "stream" /\ pc \in {"done", "sleep", "raised"}) => finalRead
    /\ (timedOut = "stream" /\ pc = "done" /\ finalText # None) =>
         /\ finalText[1] # "" =>
              result = Some(BrowserQueryResult(finalText[1], TRUE, None))
         /\ finalText[1] = "" =>
              /\ ~result[1].success
              /\ result[1].response = ""
    /\ timedOut = "await" =>
         /\ ~textRead
         /\ ~finalRead
         /\ pc = "done"
         /\ result = Some(BrowserQueryResult("", FALSE, Some(NoNewMessageError)))

WitnessDegradedSuccess ==
    /\ pc = "done"
    /\ timedOut = "stream"
    /\ ~complete
    /\ finalText # None
    /\ result[1].success

\* C5: query never raises: every exception of a page operation ends in a
\* returned BrowserQueryResult.
QueryNeverRaises ==
    /\ pc # "escaped"
    /\ pc = "done" => Len(result) = 1
    /\ exc # None => pc \in {"raised", "done"}

WitnessNonRecoverableCaught ==
    /\ pc = "done"
    /\ exc # None
    /\ ~exc[1].recoverable
    /\ ~result[1].success

\* C6: a returned result has success=true exactly when its response is
\* non-empty, and a failed result has an empty response and an error.
ResultWellFormed ==
    pc = "done" =>
        /\ result[1].success <=> result[1].response # ""
        /\ ~result[1].success =>
             /\ result[1].response = ""
             /\ result[1].error # None

WitnessEmptyFinalRead ==
    /\ pc = "done"
    /\ finalText = Some("")
    /\ ~result[1].success

\* C7 as stated: every failed cycle, by exception or by a failed outcome, is
\* followed by another cycle until one succeeds or max_retries+1 cycles ran.
EveryFailedCycleRetried ==
    pc = "done" =>
        \/ Last(cycles) = "success"
        \/ Len(cycles) = max_retries + 1

\* C8: query terminates: neither wait exceeds its number of polls, the cycle
\* runs at most max_retries+1 times, and a result is eventually returned.
QueryTerminates ==
    /\ [](/\ checks <= max_checks
          /\ polls <= max_polls
          /\ attempt <= max_retries
          /\ message_count <= max_retries + 1
          /\ Len(cycles) <= max_retries + 1)
    /\ <>(pc = "done" /\ result # None)

WitnessAllBoundsExhausted ==
    /\ pc = "done"
    /\ attempt = max_retries
    /\ Len(cycles) = max_retries + 1
    /\ polls = max_polls
(***************************************************************************)
(* Properties of MentionExtractor.extract_batch                            *)
(***************************************************************************)

\* The list of analyses of the service response, when the response is a
\* JSON object with an "analyses" list; <<>> otherwise.
ServiceAnalyses ==
    IF service.t # "content" \/ service.body = Malformed
    THEN <<>>
    ELSE LET b == service.body
             d == IF b.t = "list" /\ Len(b.items) = 1 THEN b.items[1] ELSE b
         IN IF d.t # "dict" \/ d.analyses.t # "list"
            THEN <<>>
            ELSE d.analyses.items

\* The prompt ids the service response carries an analysis for.
AnsweredIds ==
    { ServiceAnalyses[j].promptId.s :
        j \in { k \in 1..Len(ServiceAnalyses) :
                  /\ ServiceAnalyses[k].t = "dict"
                  /\ ServiceAnalyses[k].promptId.t = "str" } }

ResultsFor(id) == { i \in 1..Len(extraction) : extraction[i].prompt_id = id }

\* C9 as stated: whatever the service produced, extract_batch returns
\* exactly one ExtractionResult for each input prompt_id, and an empty one
\* for a prompt_id the response has no analysis for.
ExactlyOneResultPerPrompt ==
    epc = "returned" =>
        \A k \in 1..Len(responses) :
            /\ Cardinality(ResultsFor(responses[k])) = 1
            /\ responses[k] \notin AnsweredIds =>
                 \A i \in ResultsFor(responses[k]) :
                     /\ extraction[i].mentions = <<>>
                     /\ extraction[i].citations = <<>>

\* An entry of a mentions list that is well formed and names a tracked brand.
ValidEntry(item) ==
    /\ item.t = "dict"
    /\ Get(item.brand, JStr(<<>>)).t = "str"
    /\ MatchBrand(Get(item.brand, JStr(<<>>)).cs, brands) # None
    /\ Get(item.context, JStr(<<>>)).t = "str"

\* The canonical names of the valid entries of an analysis, in order.
ExpectedBrands(analysis) ==
    LET m == Get(analysis.mentions, JList(<<>>))
        kept == IF m.t = "list" THEN SelectSeq(m.items, ValidEntry) ELSE <<>>
    IN [i \in 1..Len(kept) |-> MatchBrand(kept[i].brand.cs, brands)[1]]

\* Every analysis of the response is a dict with a string (or no) promptId.
AnalysesWellFormed ==
    /\ ServiceAnalyses # <<>>
    /\ \A j \in 1..Len(ServiceAnalyses) :
           /\ ServiceAnalyses[j].t = "dict"
           /\ Get(ServiceAnalyses[j].promptId, JText("")).t = "str"

\* C10 as stated: a malformed or non-matching mention entry is discarded
\* alone; the valid entries of the same analysis and the analyses of the
\* other promptIds are kept, each mention under the tracked brand's name.
MalformedEntryDiscardedAlone ==
    (epc = "returned" /\ AnalysesWellFormed) =>
        /\ Len(extraction) >= Len(ServiceAnalyses)
        /\ \A j \in 1..Len(ServiceAnalyses) :
               /\ extraction[j].prompt_id =
                      Get(ServiceAnalyses[j].promptId, JText("")).s
               /\ [i \in 1..Len(extraction[j].mentions) |->
                      extraction[j].mentions[i].brand]
                    = ExpectedBrands(ServiceAnalyses[j])

(***************************************************************************)
(* Properties of analyze_platform_batch and of the stored mentions         *)
(***************************************************************************)

\* The service outcome with its analyses replaced by items.
WithAnalyses(outcome, items) ==
    IF outcome.body.t = "dict"
    THEN [outcome EXCEPT !.body.analyses.items = items]
    ELSE [outcome EXCEPT !.body.items[1].analyses.items = items]

\* The mentions and citations analyze_platform_batch attaches to each
\* prompt when the service produces outcome.
Attached(outcome) ==
    LET results == BuildPromptResults(
                       AnsweredRecords(responses),
                       extract_batch(outcome, responses, brands), brands)
    IN [k \in 1..Len(results) |->
           <<results[k].prompt_id, results[k].mentions,
             results[k].citations>>]

\* C11 as stated: the analyses of the response in any other order give each
\* prompt the same mentions and citations, and every PromptResult carries
\* the mentions of each analysis whose promptId is its prompt_id.
MatchedByPromptIdOnly ==
    (epc = "analyzed" /\ ServiceAnalyses # <<>>) =>
        /\ \A perm \in Permutations(1..Len(ServiceAnalyses)) :
               Attached(WithAnalyses(service,
                   [j \in 1..Len(ServiceAnalyses) |->
                       ServiceAnalyses[perm[j]]]))
                 = Attached(service)
        /\ \A k \in 1..Len(prompt_results) :
               \A j \in 1..Len(ServiceAnalyses) :
                   (/\ ServiceAnalyses[j].t = "dict"
                    /\ ServiceAnalyses[j].promptId.t = "str"
                    /\ ServiceAnalyses[j].promptId.s
                         = prompt_results[k].prompt_id) =>
                       [i \in 1..Len(prompt_results[k].mentions) |->
                           prompt_results[k].mentions[i].brand]
                         = ExpectedBrands(ServiceAnalyses[j])

\* C12 as stated: when the service call fails it is called again, and once
\* the calls are used up the pass yields no PromptResult and one error
\* record, instead of answers without mentions.
ServiceFailureFailsThePass ==
    (epc = "analyzed" /\ service.t = "raise") =>
        /\ llm_calls > 1
        /\ prompt_results = <<>>
        /\ BagCardinality(errors) = 1

\* C13 as stated: in every ExtractionResult the brands are pairwise
\* distinct, every count is at least 1, and the ranks are exactly 1..n.
MentionSetsWellFormed ==
    epc = "returned" =>
        \A i \in 1..Len(extraction) :
            LET m == extraction[i].mentions IN
            /\ \A a, b \in 1..Len(m) : m[a].brand = m[b].brand => a = b
            /\ \A a \in 1..Len(m) : m[a].count >= 1
            /\ \A a, b \in 1..Len(m) : m[a].rank = m[b].rank => a = b
            /\ {m[a].rank : a \in 1..Len(m)} = 1..Len(m)

\* C14: every stored BrandMention has a context of at most context_limit
\* characters, whatever the length of the context the service returned.
ContextAtMostLimit ==
    \A i \in 1..Len(extraction) :
        \A a \in 1..Len(extraction[i].mentions) :
            Len(extraction[i].mentions[a].context) <= context_limit

\* A context the service returned longer than the limit is stored cut to
\* the limit.
WitnessLongContextCut ==
    /\ epc = "returned"
    /\ \E j \in 1..Len(ServiceAnalyses) :
           /\ ServiceAnalyses[j].t = "dict"
           /\ ServiceAnalyses[j].mentions.t = "list"
           /\ \E a \in 1..Len(ServiceAnalyses[j].mentions.items) :
                  ServiceAnalyses[j].mentions.items[a] = ItemLongContext
    /\ \E i \in 1..Len(extraction) :
           \E a \in 1..Len(extraction[i].mentions) :
               extraction[i].mentions[a].context
                 = SubSeq(LongContext, 1, context_limit)

(***************************************************************************)
(* Properties of the query and analysis phases of main                     *)
(***************************************************************************)

\* The prompts of platform p whose query is awaited.
InFlight(p) == {i \in PromptIdx : tasks[p][i].st = "query"}

\* C15 as stated: on each platform at most one query is in flight, and a
\* prompt is submitted only after the queries of all earlier prompts have
\* returned.
OnePromptAtATime ==
    \A p \in Platforms :
        /\ Cardinality(InFlight(p)) <= 1
        /\ \A i, j \in PromptIdx :
               (j < i /\ tasks[p][i].st # "new") => tasks[p][j].st = "done"

\* The prompt index a prompt id of platform p was built from.
PromptIndex(p, pid) == CHOOSE i \in 0..7 : prompt_id(p, i) = pid

\* The prompt indices of the records of platform p in recs, in order.
IndicesOf(recs, p) ==
    LET OfPlatform(r) == r.platform = p
        sel == SelectSeq(recs, OfPlatform)
    IN [k \in 1..Len(sel) |-> PromptIndex(p, sel[k].prompt_id)]

Increasing(s) == \A a, b \in 1..Len(s) : a < b => s[a] < s[b]

\* The query phase is over; the analysis tasks have all returned.
QueryPhaseOver == phase \notin {"off", "query"}
AnalysisOver == phase \notin {"off", "query", "analyze"}

\* C16: for each platform the records query_platform collected, the
\* collected responses and the PromptResults are in increasing prompt
\* index; a platform task that returned holds every prompt, and the
\* PromptResults follow the valid responses.
SubmissionOrderKept ==
    \A p \in Platforms :
        /\ Increasing(IndicesOf(platform_responses[p], p))
        /\ ppc[p] = "returned" =>
               IndicesOf(platform_responses[p], p)
                 = [k \in 1..MaxPrompts |-> k - 1]
        /\ Increasing(IndicesOf(all_responses, p))
        /\ Increasing(IndicesOf(run_prompt_results, p))
        /\ AnalysisOver =>
               IndicesOf(collected_results, p) = IndicesOf(valid_responses, p)

\* The run has built its PromptResults after a query returned before an
\* earlier one, from a service response listing the answers backwards.
WitnessOutOfOrderRun ==
    /\ AnalysisOver
    /\ overtaken
    /\ \E p \in Platforms :
           /\ platform_analysis[p] # None
           /\ Len(platform_analysis[p][1].results) >= 2
           /\ platform_analysis[p][1].service.t = "content"
           /\ LET items == platform_analysis[p][1].service.body.analyses.items
              IN /\ Len(items) = Len(Group(p))
                 /\ items[1].promptId.s = Last(Group(p)).prompt_id
           /\ IndicesOf(collected_results, p) = IndicesOf(Group(p), p)

\* The platform_exception records of the log.
PlatformExceptionCount ==
    LET recs == {r \in BagToSet(errors) :
                    r.error_type = "platform_exception"}
    IN BagCardinality([r \in recs |-> errors[r]])

\* C17: when a platform task raises, the phase still ends only after every
\* other task has returned, the collected responses hold every record of
\* each task that returned, and each raise is logged as one error.
SiblingsSurviveRaise ==
    QueryPhaseOver =>
        /\ \A p \in Platforms :
               /\ ppc[p] \in {"returned", "raised"}
               /\ ppc[p] = "returned" =>
                      LET OfPlatform(r) == r.platform = p IN
                      SelectSeq(all_responses, OfPlatform)
                        = [k \in 1..MaxPrompts |-> tasks[p][k - 1].result[1]]
        /\ PlatformExceptionCount
             = Cardinality({p \in Platforms : ppc[p] = "raised"})

\* One platform task raised; the other returned and all its records are
\* among the collected responses.
WitnessOneTaskRaised ==
    /\ phase = "analyze"
    /\ \E p, q \in Platforms :
           /\ ppc[p] = "raised"
           /\ ppc[q] = "returned"
           /\ Len(all_responses) = MaxPrompts
           /\ \A k \in 1..MaxPrompts : all_responses[k].platform = q
    /\ PlatformExceptionCount = 1

\* A query of platform p has failed with a non-recoverable error.
FatalSeen(p) ==
    \E i \in PromptIdx :
        /\ tasks[p][i].st = "done"
        /\ tasks[p][i].result[1].error = Some("Invalid API key")

Submitted(ts) == {i \in PromptIdx : ts[i].st # "new"}

\* C18 as stated: once a query of a platform has failed with a
\* non-recoverable error no further prompt is submitted on that platform,
\* and a query that fails on its first attempt with a recoverable error is
\* attempted again.
NonRecoverableAbortsPlatform ==
    [][\A p \in Platforms :
          /\ FatalSeen(p) => Submitted(tasks'[p]) = Submitted(tasks[p])
          /\ \A i \in PromptIdx :
                 (/\ tasks[p][i].st = "query"
                  /\ tasks[p][i].attempt = 0
                  /\ tasks'[p][i].st = "done"
                  /\ ~tasks'[p][i].result[1].success) =>
                     tasks'[p][i].result[1].error = Some("Invalid API key")
      ]_vars

\* C19 as stated: once the ceiling has passed, the query phase has ended
\* and no query is awaited any more.
CeilingEndsQueryPhase ==
    ceiling_hit =>
        /\ phase # "query"
        /\ \A p \in Platforms : InFlight(p) = {}

\* The query error records of the log with context c, and all of them.
QueryErrorsFor(c) ==
    LET recs == {r \in BagToSet(errors) :
                    /\ r.error_type \in {"query_failed", "query_exception"}
                    /\ r.context = Some(c)}
    IN BagCardinality([r \in recs |-> errors[r]])

QueryErrorCount ==
    LET recs == {r \in BagToSet(errors) :
                    r.error_type \in {"query_failed", "query_exception"}}
    IN BagCardinality([r \in recs |-> errors[r]])

\* Every query that has returned has exactly one record, of its outcome,
\* and a query that has not returned has none.
LogMatchesOutcomes ==
    /\ \A p \in Platforms : \A i \in PromptIdx :
           LET c == Context(p, prompt_id(p, i))
               n_ok == CopiesIn(SuccessRecord(c), successes)
               n_err == QueryErrorsFor(c)
           IN IF tasks[p][i].st # "done"
              THEN n_ok = 0 /\ n_err = 0
              ELSE IF tasks[p][i].result[1].success
              THEN n_ok = 1 /\ n_err = 0
              ELSE n_ok = 0 /\ n_err = 1
    /\ QueryPhaseOver =>
           BagCardinality(successes) + QueryErrorCount
             = Cardinality(Platforms) * MaxPrompts

\* No step removes a record from the log.
LogOnlyGrows ==
    /\ \A r \in BagToSet(errors) : CopiesIn(r, errors') >= CopiesIn(r, errors)
    /\ \A r \in BagToSet(successes) :
           CopiesIn(r, successes') >= CopiesIn(r, successes)

\* C20: under every interleaving of the platform and prompt tasks the log
\* only grows and holds exactly one record per query outcome, a success
\* record for a success and an error record otherwise; after the query
\* phase the success and query error records number platforms x prompts.
OneRecordPerOutcome == []LogMatchesOutcomes /\ [][LogOnlyGrows]_vars

\* The query phase ended with successes and a failure logged by tasks that
\* finished out of submission order.
WitnessConcurrentLog ==
    /\ phase = "analyze"
    /\ overtaken
    /\ QueryErrorCount >= 1
    /\ BagCardinality(successes) >= Cardinality(Platforms) * MaxPrompts - 1
(***************************************************************************)
(* Claims about the end of the run (Part III).                             *)
(***************************************************************************)

\* The types of the records pushed so far.
Emitted == {dataset[k].type : k \in 1..Len(dataset)}

\* C21 as stated: whatever failed before, no exception leaves main, and a
\* run that has ended has pushed one brand_summary per tracked brand, the
\* leaderboard and the run_summary, and an error_summary when the tracker
\* holds an error.
RunAlwaysCompletes ==
    /\ main_exc = None
    /\ phase # "raised"
    /\ phase = "finished" =>
           /\ {"brand_summary", "leaderboard", "run_summary"}
                  \subseteq Emitted
           /\ BagCardinality(errors) > 0 => "error_summary" \in Emitted

\* The record types of a run whose answers were analysed.
OrdinaryTypes ==
    {"prompt_result", "brand_summary", "leaderboard", "run_summary",
     "error_summary"}

\* C22 as stated: a run that ended without any valid answer has pushed a
\* record that a run with analysed answers does not push, or a run_summary
\* whose status is not "completed".
ZeroAnswersReported ==
    (phase \in {"finished", "raised"} /\ valid_responses = <<>>) =>
        \E k \in 1..Len(dataset) :
            \/ dataset[k].type \notin OrdinaryTypes
            \/ /\ dataset[k].type = "run_summary"
               /\ dataset[k].status # "completed"

(***************************************************************************)
(* Claims about the browser session (Part IV).                             *)
(***************************************************************************)

\* C23 as stated: close never ends with an exception, whatever state it is
\* called in, and a close that has ended has called a release on every
\* attribute that refers to a resource.
CloseIsSafe ==
    /\ spc # "close_raised"
    /\ spc = "closed" =>
           \A kind \in DOMAIN self_refs :
               self_refs[kind] # None => kind \in released

\* C24 as stated: initialize makes at most one retry, and once close has
\* returned no browser launched by any attempt of initialize is left open.
SessionsReleased ==
    /\ init_attempt <= max_retries
    /\ spc = "closed" => \A x \in live : x[1] # "browser"


\* The orders a list of n mentions can be given in.
Orderings(n) == {f \in [1..n -> 1..n] : \A i, j \in 1..n : f[i] = f[j] => i = j}

Reordered(mentions, f) == [i \in 1..Len(mentions) |-> mentions[f[i]]]

MentionedBrands(mentions) == {mentions[i].brand : i \in 1..Len(mentions)}

\* The brands that hold the largest count of the list and, among the
\* mentions with that count, the lowest rank.
BestBrands(mentions) ==
    LET idx == 1..Len(mentions)
        top == {i \in idx : \A j \in idx : mentions[j].count <= mentions[i].count}
        first == {i \in top : \A j \in top : mentions[i].rank <= mentions[j].rank}
    IN {mentions[i].brand : i \in first}

\* The brands that hold the smallest count of the list and, among the
\* mentions with that count, the highest rank.
WorstBrands(mentions) ==
    LET idx == 1..Len(mentions)
        low == {i \in idx : \A j \in idx : mentions[i].count <= mentions[j].count}
        last == {i \in low : \A j \in low : mentions[j].rank <= mentions[i].rank}
    IN {mentions[i].brand : i \in last}

\* C25 as stated: determine_winner returns None for an empty list and when
\* two brands share the largest count and the lowest rank among it,
\* otherwise the one brand with the largest count and the lowest rank, and
\* the result is the same for every order of the list.
WinnerAsStated ==
    wpc \in {"winner", "loser"} =>
        /\ w_mentions = <<>> => w_winner = None
        /\ Cardinality(BestBrands(w_mentions)) > 1 => w_winner = None
        /\ Cardinality(BestBrands(w_mentions)) = 1 =>
               /\ w_winner # None
               /\ w_winner[1] \in BestBrands(w_mentions)
        /\ \A f \in Orderings(Len(w_mentions)) :
               determine_winner(Reordered(w_mentions, f)) = w_winner

\* C26 as stated: determine_loser returns None when fewer than two brands
\* are mentioned, otherwise a brand with the smallest count and the highest
\* rank among it, and the result is the same for every order of the list.
LoserAsStated ==
    wpc = "loser" =>
        /\ Cardinality(MentionedBrands(w_mentions)) < 2 => w_loser = None
        /\ Cardinality(MentionedBrands(w_mentions)) >= 2 =>
               /\ w_loser # None
               /\ w_loser[1] \in WorstBrands(w_mentions)
        /\ \A f \in Orderings(Len(w_mentions)) :
               determine_loser(Reordered(w_mentions, f)) = w_loser


\* score, in tenths, is n / d * 100 rounded to one decimal.
IsRounded(score, n, d) ==
    LET diff == score * d - 1000 * n
    IN 2 * (IF diff < 0 THEN 0 - diff ELSE diff) <= d

MetricsDone == mpc \in {"metrics", "leaderboards"}

OnPlatform(platform) ==
    {k \in 1..Len(m_results) : m_results[k].platform = platform}

\* C27: visibilityScore is 100 * promptsWithMention / totalPromptsAnalyzed
\* rounded to one decimal, 0.0 when totalPromptsAnalyzed is 0, and between
\* 0 and 100; the score of a platform divides by the number of that
\* platform's prompts.
VisibilityScoreRounded ==
    MetricsDone =>
        \A b \in 1..Len(m_brand_metrics) :
            LET m == m_brand_metrics[b]
            IN /\ m.total_prompts_analyzed = 0 => m.visibility_score = 0
               /\ m.total_prompts_analyzed > 0 =>
                      IsRounded(m.visibility_score, m.prompts_with_mention,
                                m.total_prompts_analyzed)
               /\ m.visibility_score \in 0..1000
               /\ \A platform \in DOMAIN m.platform_breakdown :
                      /\ IsRounded(
                             m.platform_breakdown[platform].visibilityScore,
                             m.platform_breakdown[platform].promptsWithMention,
                             Cardinality(OnPlatform(platform)))
                      /\ m.platform_breakdown[platform].visibilityScore
                             \in 0..1000

\* Two of three prompts mention a brand, one of the two of chatgpt and the
\* one of gemini: 66.7 overall, 50.0 and 100.0 on the platforms.
WitnessVisibilityPerPlatform ==
    /\ MetricsDone
    /\ \E b \in 1..Len(m_brand_metrics) :
           /\ m_brand_metrics[b].total_prompts_analyzed = 3
           /\ m_brand_metrics[b].prompts_with_mention = 2
           /\ m_brand_metrics[b].visibility_score = 667
           /\ m_brand_metrics[b].platform_breakdown["chatgpt"].visibilityScore
                  = 500
           /\ m_brand_metrics[b].platform_breakdown["gemini"].visibilityScore
                  = 1000

\* The counts of all mentions of a brand in the results of the set idx, and
\* the counts of all mentions in them.
BrandTotal(idx, brand) ==
    LET Own(m) == Lower(m.brand) = Lower(brand)
    IN SumOf([k \in 1..Len(m_results) |->
               IF k \in idx
               THEN SumCounts(SelectSeq(m_results[k].mentions, Own))
               ELSE 0])

AllTotal(idx) ==
    SumOf([k \in 1..Len(m_results) |->
             IF k \in idx THEN SumCounts(m_results[k].mentions) ELSE 0])

ShareAsStated(share, idx, brand) ==
    IF AllTotal(idx) = 0
    THEN share = 0
    ELSE IsRounded(share, BrandTotal(idx, brand), AllTotal(idx))

\* C28 as stated: citationShare is 100 * the brand's total mention count /
\* the sum of all brands' mention counts rounded to one decimal, 0.0 when
\* the sum is 0, over all PromptResults for the global value and over the
\* PromptResults of platform p for platform_breakdown[p].
CitationShareAsStated ==
    MetricsDone =>
        \A b \in 1..Len(m_brand_metrics) :
            LET m == m_brand_metrics[b]
            IN /\ ShareAsStated(m.citation_share, 1..Len(m_results), m.brand)
               /\ \A platform \in DOMAIN m.platform_breakdown :
                      ShareAsStated(
                          m.platform_breakdown[platform].citationShare,
                          OnPlatform(platform), m.brand)

\* The sum of the brands' citation shares on a platform.
ShareSum(platform) ==
    SumOf([b \in 1..Len(m_brand_metrics) |->
             m_brand_metrics[b].platform_breakdown[platform].citationShare])

\* C29: on every platform the citation shares of the tracked brands sum to
\* at most 100.0, up to the half of a tenth each share can gain by its
\* rounding.
ShareSumBounded ==
    MetricsDone =>
        \A platform \in {m_results[k].platform : k \in 1..Len(m_results)} :
            2 * ShareSum(platform) <= 2000 + Len(m_brand_metrics)

\* Shares of 3, 2 and 2 mentions of 7: 42.9 + 28.6 + 28.6 = 100.1.
WitnessShareSumRounded ==
    /\ MetricsDone
    /\ m_results # <<>>
    /\ m_results[1].platform = "chatgpt"
    /\ ShareSum("chatgpt") = 1001

StableTextReturned ==
    (pc = "done" /\ complete /\ finalText # None) =>
        finalText[1] = last_content

\* C40: a text of 10 characters or fewer never completes the stability
\* wait; the wait that ends without completing has made all of its polls,
\* and query then returns the non-empty text of the final read as a
\* success.
ShortTextNeverStable ==
    /\ complete => Len(Last(reads)) > min_stable_len
    /\ timedOut = "stream" => (~complete /\ polls = max_polls)
    /\ (pc = "done" /\ timedOut = "stream" /\ finalText # None
          /\ finalText[1] # "")
           => result = Some(BrowserQueryResult(finalText[1], TRUE, None))

\* The last reads of the wait and the final read all returned the same
\* text of 10 characters: the wait timed out and the text is the result.
WitnessShortTextTimesOut ==
    /\ pc = "done"
    /\ timedOut = "stream"
    /\ Len(reads) = required_stable + 1
    /\ \A k \in 1..Len(reads) : reads[k] = "incomplete"
    /\ result = Some(BrowserQueryResult("incomplete", TRUE, None))


\* An outcome of query that ends the loop of query_with_retry.
EndsRetries(o) ==
    \/ o.kind = "return" /\ o.result.success
    \/ o.kind = "raise" /\ ~o.error.recoverable

\* The parts of C37 on the calls and the waits: at most max_retries calls
\* of query, none after a successful result or a non-recoverable
\* PlatformError, a wait of 2^attempt seconds between two attempts and none
\* after the last one, and a successful result returned as it is.
RetryCallsAndWaits ==
    /\ Len(rlog) <= rmax
    /\ \A k \in 1..(Len(rlog) - 1) : ~EndsRetries(rlog[k])
    /\ \A k \in 1..Len(rwaits) : rwaits[k] = 2 ^ (k - 1)
    /\ rtask.st = "sleep" => (Len(rwaits) = Len(rlog) /\ Len(rlog) < rmax)
    /\ rtask.st = "query" => Len(rwaits) = Len(rlog)
    /\ rtask.st = "done" =>
           /\ Len(rwaits) = Len(rlog) - 1
           /\ EndsRetries(Last(rlog)) \/ Len(rlog) = rmax
           /\ (Last(rlog).kind = "return" /\ Last(rlog).result.success)
                  => rtask.result = Some(Last(rlog).result)

NoAttemptSucceeded ==
    /\ rtask.st = "done"
    /\ ~(Last(rlog).kind = "return" /\ Last(rlog).result.success)

\* C37 as stated: with the calls and waits as above, a call in which no
\* attempt succeeds returns success=false, an empty response and the last
\* error.
RetryReturnsLastError ==
    /\ RetryCallsAndWaits
    /\ NoAttemptSucceeded =>
           rtask.result = Some(QueryResult("", FALSE, LastError(Last(rlog))))

\* C37 amended: with the calls and waits as above, a call in which no
\* attempt succeeds returns success=false, an empty response, and the last
\* error when it has a text, "Unknown error after retries" otherwise.
RetryReturnsErrorOrDefault ==
    /\ RetryCallsAndWaits
    /\ NoAttemptSucceeded =>
           rtask.result =
               Some(QueryResult("", FALSE,
                      IF LastError(Last(rlog)) \in {None, Some("")}
                      THEN Some("Unknown error after retries")
                      ELSE LastError(Last(rlog))))

\* Three attempts with waits of 1 and 2 seconds, the last one failing
\* without an error text.
WitnessRetriesExhausted ==
    /\ rtask.st = "done"
    /\ rmax = 3
    /\ Len(rlog) = 3
    /\ rwaits = <<1, 2>>
    /\ LastError(Last(rlog)) = Some("")
    /\ rtask.result =
           Some(QueryResult("", FALSE, Some("Unknown error after retries")))


ContextIn(k, brand) ==
    LET ms == m_results[k].mentions
        own == {i \in 1..Len(ms) : Lower(ms[i].brand) = Lower(brand)}
    IN IF own = {}
       THEN <<>>
       ELSE ms[CHOOSE i \in own : \A j \in own : i <= j].context

NormalizedPrefix(ctx) == Prefix(Lower(ctx), dedup_prefix)

\* The PromptResults that hold a non-empty context of the brand whose
\* normalized prefix no earlier PromptResult has.
FirstOccurrences(brand) ==
    {k \in 1..Len(m_results) :
        /\ ContextIn(k, brand) # <<>>
        /\ \A j \in 1..(k - 1) :
               \/ ContextIn(j, brand) = <<>>
               \/ NormalizedPrefix(ContextIn(j, brand))
                      # NormalizedPrefix(ContextIn(k, brand))}

\* C32: top_contexts has at most 5 entries, no two with the same
\* normalized prefix, and they are the first occurrences of the brand's
\* non-empty contexts, in PromptResult order.
TopContextsFirstOccurrences ==
    MetricsDone =>
        \A b \in 1..Len(m_brand_metrics) :
            LET top == m_brand_metrics[b].top_contexts
                first == FirstOccurrences(m_brand_metrics[b].brand)
            IN /\ Len(top) <= 5
               /\ \A i, j \in 1..Len(top) :
                      i # j => NormalizedPrefix(top[i])
                                   # NormalizedPrefix(top[j])
               /\ Len(top) = IF Cardinality(first) < 5
                             THEN Cardinality(first) ELSE 5
               /\ \A i \in 1..Len(top) :
                      \E k \in first :
                          /\ Cardinality({j \in first : j < k}) = i - 1
                          /\ top[i] = ContextIn(k, m_brand_metrics[b].brand)

\* Six contexts with six different prefixes: the first five are kept.
WitnessSixthContextDropped ==
    /\ MetricsDone
    /\ Cardinality(FirstOccurrences(MetricBrands[1])) = 6
    /\ Len(m_brand_metrics[1].top_contexts) = 5

\* C33: with no PromptResults every brand gets visibilityScore 0.0,
\* citationShare 0.0, all counters 0, an empty platform breakdown and no
\* contexts; the leaderboard lists the brands in input order with ranks
\* 1..n and every platform leaderboard is empty.
EmptyListAllZero ==
    (MetricsDone /\ m_results = <<>>) =>
        /\ Len(m_brand_metrics) = Len(MetricBrands)
        /\ \A b \in 1..Len(m_brand_metrics) :
               LET m == m_brand_metrics[b]
               IN /\ m.brand = MetricBrands[b]
                  /\ m.visibility_score = 0
                  /\ m.citation_share = 0
                  /\ m.total_mentions = 0
                  /\ m.total_prompts_analyzed = 0
                  /\ m.prompts_with_mention = 0
                  /\ m.prompts_missed = 0
                  /\ m.prompts_won = 0
                  /\ m.prompts_lost = 0
                  /\ m.prompts_tied = 0
                  /\ DOMAIN m.platform_breakdown = {}
                  /\ m.top_contexts = <<>>
        /\ mpc \in {"leaderboards", "again"} =>
               /\ Len(m_rankings) = Len(MetricBrands)
               /\ \A k \in 1..Len(m_rankings) :
                      /\ m_rankings[k].rank = k
                      /\ m_rankings[k].brand = MetricBrands[k]
               /\ \A platform \in DOMAIN m_platform_leaderboards :
                      m_platform_leaderboards[platform] = <<>>

WitnessEmptyListAggregated ==
    /\ mpc = "leaderboards"
    /\ m_results = <<>>
    /\ Len(m_rankings) = Len(MetricBrands)

\* The extraction of one answer holds the user's brand with count 2 and
\* rank 1 and the competitor with count 1 and rank 2.
AcmeZenithCase ==
    /\ epc \in {"analyzed", "aggregated"}
    /\ responses = <<"p1">>
    /\ Len(extraction) = 1
    /\ extraction[1].prompt_id = "p1"
    /\ Len(extraction[1].mentions) = 2
    /\ extraction[1].mentions[1].brand = TrackedBrands[1]
    /\ extraction[1].mentions[1].count = 2
    /\ extraction[1].mentions[1].rank = 1
    /\ extraction[1].mentions[2].brand = TrackedBrands[2]
    /\ extraction[1].mentions[2].count = 1
    /\ extraction[1].mentions[2].rank = 2

EmittedWinnerAsComputed ==
    wpc = "record" =>
        /\ w_record[1].promptWinner = w_winner
        /\ w_record[1].promptLoser = w_loser

\* C38: promptsWithMention + promptsMissed = totalPromptsAnalyzed = the
\* number of PromptResults, and promptsWon + promptsLost + promptsTied is
\* at most the number of PromptResults that have a winner.
CountersConsistent ==
    MetricsDone =>
        \A b \in 1..Len(m_brand_metrics) :
            LET m == m_brand_metrics[b]
            IN /\ m.prompts_with_mention + m.prompts_missed
                      = m.total_prompts_analyzed
               /\ m.total_prompts_analyzed = Len(m_results)
               /\ m.prompts_won + m.prompts_lost + m.prompts_tied
                      <= Cardinality({k \in 1..Len(m_results) :
                             m_results[k].prompt_winner # None})
               /\ m.prompts_won + m.prompts_lost + m.prompts_tied
                      <= m.total_prompts_analyzed

\* The user's brand wins one prompt, loses one and is mentioned in a third
\* that has no winner.
WitnessPromptWithoutWinner ==
    /\ MetricsDone
    /\ Len(m_results) = 3
    /\ \E k \in 1..3 : /\ m_results[k].prompt_winner = None
                       /\ m_results[k].your_brand_mentioned
    /\ m_brand_metrics[1].prompts_won = 1
    /\ m_brand_metrics[1].prompts_lost = 1
    /\ m_brand_metrics[1].prompts_tied = 0


\* C36 as stated: once the analysis tasks have returned, every collected
\* response with success = true has exactly one PromptResult with its
\* prompt_id and platform among the results main collects.
SuccessfulAnswerAnalysed ==
    AnalysisOver =>
        \A k \in 1..Len(all_responses) :
            all_responses[k].success =>
                Cardinality({j \in 1..Len(collected_results) :
                    /\ collected_results[j].prompt_id
                           = all_responses[k].prompt_id
                    /\ collected_results[j].platform
                           = all_responses[k].platform}) = 1

====
